---------------------------- MODULE Spec2Model ----------------------------
(***************************************************************************)
(* Joint training orchestrator of the detector and its control network.    *)
(*                                                                         *)
(* Two variants of train() are modelled side by side:                      *)
(*   "train"  : train.py                (downscaling network, 40*bpp+loss) *)
(*   "train2" : train2_0602_qf80_8.py   (luminance/blur network,           *)
(*                                       1*bpp + 8*loss)                   *)
(*                                                                         *)
(* Spec    : the training loop of one process (RANK -1, 0 or 1).           *)
(* SpecDDP : the epoch loops of all ranks of a DDP group and the           *)
(*           per-epoch broadcast of the stop decision.                     *)
(*                                                                         *)
(* Tensor values are integers in fixed point; a tensor is the sequence of  *)
(* its elements.  Network weights are version numbers: an optimizer step   *)
(* that changes a parameter group increments its version.                  *)
(***************************************************************************)
EXTENDS Integers, Sequences, FiniteSets, TLC

(***************************************************************************)
(* Bounds of the model                                                     *)
(***************************************************************************)
\* epochs of one run (opt.epochs)
MaxEpochs == 3
\* batches per epoch, nb = len(train_loader)
MaxBatches == 2
\* images per batch on one process (batch_size // WORLD_SIZE) range over 1..MaxBatch
MaxBatch == 2
\* values returned by compute_loss range over 1..MaxLoss
MaxLoss == 2
\* number of ranks of the DDP group in SpecDDP
NumRanks == 2
\* blocks per channel of the tensors handed to delta_encode in SpecDelta
MaxBlocks == 3
\* significand width of the tensor dtype in SpecDelta (float32 has 24 bits):
\* integers up to 2^MantBits are exact, larger ones are rounded
MantBits == 3
\* the quantized coefficient tensors of SpecPipe are drawn for seeds 0..MaxSeed
MaxSeed == 2
\* pre-activations of a control network's last layer range over -MaxPre..MaxPre
MaxPre == 5
\* epochs of a run of SpecLr, and batches per epoch of its longer loader
LrEpochs == 4
LrBatches == 40

(***************************************************************************)
(* Program constants                                                       *)
(***************************************************************************)
nbs == 64
MinWarmup == 100
warmup_epochs == 3
BppWeightTrain == 40
DetWeightTrain == 1
BppWeightTrain2 == 1
DetWeightTrain2 == 8
QuadFactor == 4

Variants == {"train", "train2"}

VARIABLES
    variant,        \* which train() is running
    RANK,           \* -1 single process, 0 coordinator, >0 other DDP rank
    opt,            \* run options: batch_size, quad, noval, nosave, patience, epochs, nb
    pc,             \* position in train()
    epoch,          \* epoch loop variable
    i,              \* batch loop variable
    last_opt_step,  \* ni of the last optimizer step
    accumulate,     \* accumulation threshold
    params,         \* parameter groups: val, requires_grad, grad, unscaled, clipped
    ema,            \* ExtendedModelEMA: on, updates, model, ctl
    events,         \* calls made by the last batch iteration, in order
    step_log,       \* state of the gradients at each optimizer's step in the last iteration
    counts,         \* run counters: backward, step per optimizer, ema updates, scaler updates
    losses,         \* bpp_loss, loss, total_loss of the last forward pass
    fit,            \* results, fi, best_fitness, stopper state, stop
    val_log,        \* arguments of the last validate.run
    files,          \* last.pt and best.pt
    ostate,         \* state_dict of each optimizer (step count and moment buffers)
    load_log,       \* what the set-up code loaded from --weights, and what it reported
    ranks,          \* SpecDDP: per-rank position, epoch, stop
    chan,           \* SpecDDP: values broadcast by rank 0 and not yet received
    dlt,            \* SpecDelta: argument and result of delta_encode
    pipe,           \* SpecPipe: one forward pass through the compression surrogate
    fwd,            \* SpecFwd: one call of a control network and of the transforms it drives
    lrs             \* SpecLr: learning rates, momentum and scheduler positions of a run

vars == <<variant, RANK, opt, pc, epoch, i, last_opt_step, accumulate, params, ema,
          events, step_log, counts, losses, fit, val_log, files, ostate, load_log,
          ranks, chan, dlt, pipe, fwd, lrs>>

trainVars == <<variant, RANK, opt, pc, epoch, i, last_opt_step, accumulate, params, ema,
               events, step_log, counts, losses, fit, val_log, files, ostate, load_log>>

ddpVars == <<ranks, chan>>

pipeVars == <<dlt, pipe, fwd, lrs>>

(***************************************************************************)
(* Arithmetic helpers                                                      *)
(***************************************************************************)
Max(a, b) == IF a >= b THEN a ELSE b

\* round(p/q) as Python's round and numpy's round do it: half to even (p >= 0, q > 0)
RoundHalfEven(p, q) ==
    LET f == p \div q
        r2 == 2 * (p % q)
    IN  IF r2 < q THEN f
        ELSE IF r2 > q THEN f + 1
        ELSE IF f % 2 = 0 THEN f ELSE f + 1

\* WORLD_SIZE of the process group the rank belongs to
WORLD_SIZE(rank) == IF rank = -1 THEN 1 ELSE NumRanks

\* images per batch on this process: create_dataloader(..., batch_size // WORLD_SIZE, ...)
LocalBatch(o, rank) == o.batch_size \div WORLD_SIZE(rank)

\* nw = max(round(hyp["warmup_epochs"] * nb), 100)
nw(o) == Max(warmup_epochs * o.nb, MinWarmup)

\* accumulate = max(round(nbs / batch_size), 1)
InitAccumulate(o) == Max(RoundHalfEven(nbs, o.batch_size), 1)

\* accumulate = max(1, np.interp(ni, [0, nw], [1, nbs / batch_size]).round())
WarmupAccumulate(o, ni) ==
    Max(1, RoundHalfEven(nw(o) * o.batch_size + (nbs - o.batch_size) * ni,
                         nw(o) * o.batch_size))

(***************************************************************************)
(* Parameter groups, optimizers and the calls of one batch iteration       *)
(***************************************************************************)
\* train.py has no bit-rate estimator (bpp_loss = 1 / downscaling_factor)
ParamNames(v) ==
    IF v = "train" THEN {"model", "ctl_resnet", "ctl_head"}
    ELSE {"model", "ctl_resnet", "ctl_head", "bitEstimator"}

\* parameter groups whose requires_grad is set to False before training
FrozenParams(v) ==
    IF v = "train" THEN {"ctl_resnet"} ELSE {"ctl_resnet", "bitEstimator"}

\* parameters handed to each optimizer:
\*   smart_optimizer(model, ...), optim.Adam(<control network>.parameters(), ...)
OptimizerParams(o) ==
    IF o = "optimizer" THEN {"model"} ELSE {"ctl_resnet", "ctl_head"}

Optimizers == {"optimizer", "ctl_optimizer"}

\* parameters of a network, as clip_grad_norm_(<network>.parameters(), ...) sees them
NetParams(n) ==
    IF n = "model" THEN {"model"} ELSE {"ctl_resnet", "ctl_head"}

InitParamsNoFreeze(v) ==
    [p \in ParamNames(v) |->
        [val |-> 0, requires_grad |-> TRUE, grad |-> {},
         unscaled |-> FALSE, clipped |-> FALSE]]

InitParams(v) ==
    [p \in ParamNames(v) |->
        [val |-> 0, requires_grad |-> p \notin FrozenParams(v), grad |-> {},
         unscaled |-> FALSE, clipped |-> FALSE]]

NoStep == [stepped |-> FALSE, unscaled |-> FALSE, clipped |-> FALSE, grads |-> {}, at |-> 0]

\* <loss>.backward(): every parameter of the graph that requires grad accumulates
\* the gradient of this micro-batch; scaled tells whether the loss went through scaler.scale
Backward(m, ni, of, scaled) ==
    [m EXCEPT
        !.params = [p \in DOMAIN m.params |->
            IF m.params[p].requires_grad
            THEN [m.params[p] EXCEPT !.grad = @ \cup {[mb |-> ni, of |-> of, scaled |-> scaled]}]
            ELSE m.params[p]],
        !.events = Append(@, "backward"),
        !.counts.backward = @ + 1]

\* scaler.unscale_(optimizer)
Unscale(m, o) ==
    [m EXCEPT
        !.params = [p \in DOMAIN m.params |->
            IF p \in OptimizerParams(o) /\ m.params[p].grad # {}
            THEN [m.params[p] EXCEPT !.unscaled = TRUE]
            ELSE m.params[p]],
        !.events = Append(@, IF o = "optimizer" THEN "unscale:optimizer"
                                                ELSE "unscale:ctl_optimizer")]

\* torch.nn.utils.clip_grad_norm_(<network>.parameters(), max_norm=10.0)
ClipGradNorm(m, n) ==
    [m EXCEPT
        !.params = [p \in DOMAIN m.params |->
            IF p \in NetParams(n) /\ m.params[p].grad # {}
            THEN [m.params[p] EXCEPT !.clipped = TRUE]
            ELSE m.params[p]],
        !.events = Append(@, IF n = "model" THEN "clip:model" ELSE "clip:ctl")]

\* optimizer.step() / scaler.step(optimizer): parameters without a gradient are skipped
OptStep(m, o) ==
    LET withGrad == {p \in OptimizerParams(o) : m.params[p].grad # {}}
    IN  [m EXCEPT
        !.params = [p \in DOMAIN m.params |->
            IF p \in withGrad THEN [m.params[p] EXCEPT !.val = @ + 1] ELSE m.params[p]],
        !.step_log[o] = [stepped |-> TRUE,
                         unscaled |-> \A p \in withGrad : m.params[p].unscaled,
                         clipped |-> \A p \in withGrad : m.params[p].clipped,
                         grads |-> UNION {m.params[p].grad : p \in withGrad},
                         at |-> Len(m.events) + 1],
        !.events = Append(@, IF o = "optimizer" THEN "step:optimizer"
                                                ELSE "step:ctl_optimizer"),
        !.ostate[o] = @ + 1,
        !.counts.steps[o] = @ + 1]

\* optimizer.zero_grad()
ZeroGrad(m, o) ==
    [m EXCEPT
        !.params = [p \in DOMAIN m.params |->
            IF p \in OptimizerParams(o)
            THEN [m.params[p] EXCEPT !.grad = {}, !.unscaled = FALSE, !.clipped = FALSE]
            ELSE m.params[p]],
        !.events = Append(@, IF o = "optimizer" THEN "zero_grad:optimizer"
                                                ELSE "zero_grad:ctl_optimizer")]

\* scaler.update()
ScalerUpdate(m) ==
    [m EXCEPT !.events = Append(@, "scaler.update"), !.counts.scaler = @ + 1]

\* if ema: ema.update(model, <control network>)
EmaUpdate(m) ==
    IF m.ema.on
    THEN [m EXCEPT
            !.ema.updates = @ + 1,
            !.ema.model = m.params["model"].val,
            !.ema.ctl = m.params["ctl_head"].val,
            !.events = Append(@, "ema.update"),
            !.counts.ema = @ + 1]
    ELSE m

Apply(op, m, ni) ==
    CASE op = "backward_total"          -> Backward(m, ni, "total_loss", FALSE)
      [] op = "backward_scaled_loss"    -> Backward(m, ni, "loss", TRUE)
      [] op = "backward_scaled_total"   -> Backward(m, ni, "total_loss", TRUE)
      [] op = "unscale_optimizer"       -> Unscale(m, "optimizer")
      [] op = "unscale_ctl_optimizer"   -> Unscale(m, "ctl_optimizer")
      [] op = "clip_model"              -> ClipGradNorm(m, "model")
      [] op = "clip_ctl"                -> ClipGradNorm(m, "ctl")
      [] op = "step_ctl_optimizer"      -> OptStep(m, "ctl_optimizer")
      [] op = "step_optimizer"          -> OptStep(m, "optimizer")
      [] op = "scaler_update"           -> ScalerUpdate(m)
      [] op = "zero_ctl_optimizer"      -> ZeroGrad(m, "ctl_optimizer")
      [] op = "zero_optimizer"          -> ZeroGrad(m, "optimizer")
      [] op = "ema_update"              -> EmaUpdate(m)

RECURSIVE Run(_, _, _)
Run(ops, m, ni) == IF ops = <<>> THEN m ELSE Run(Tail(ops), Apply(Head(ops), m, ni), ni)

\* the backward passes of one batch iteration
BackwardOps(v) ==
    IF v = "train" THEN <<"backward_total", "backward_scaled_loss">>
    ELSE <<"backward_scaled_total">>

OptimizeOpsEmaFirst(v) ==
    IF v = "train"
    THEN <<"ema_update",
           "unscale_optimizer", "clip_model",
           "step_ctl_optimizer", "zero_ctl_optimizer",
           "step_optimizer", "scaler_update", "zero_optimizer">>
    ELSE <<"ema_update",
           "unscale_optimizer", "unscale_ctl_optimizer",
           "clip_ctl", "clip_model",
           "step_ctl_optimizer", "scaler_update",
           "step_optimizer", "scaler_update",
           "zero_ctl_optimizer", "zero_optimizer">>

\* the body of `if ni - last_opt_step >= accumulate:`
OptimizeOps(v) ==
    IF v = "train"
    THEN <<"unscale_optimizer", "clip_model",
           "step_ctl_optimizer", "zero_ctl_optimizer",
           "step_optimizer", "scaler_update", "zero_optimizer",
           "ema_update">>
    ELSE <<"unscale_optimizer", "unscale_ctl_optimizer",
           "clip_ctl", "clip_model",
           "step_ctl_optimizer", "scaler_update",
           "step_optimizer", "scaler_update",
           "zero_ctl_optimizer", "zero_optimizer",
           "ema_update">>

(***************************************************************************)
(* Forward pass: the losses                                                *)
(***************************************************************************)
\* outputs of DownscalingNetwork.forward, in [1, 4]
DownFactors == {1, 2, 4}

\* values of the reduced code-length estimate of train2 (torch.mean of the sums)
BppLevels == {0, 1}

\* 1 / downscaling_factor, in fixed point (quarters)
Reciprocal(x) == 4 \div x

\* loss after `if RANK != -1: loss *= WORLD_SIZE` and `if opt.quad: loss *= 4.0`
DetLoss(raw, rank, quad) ==
    LET l1 == IF rank # -1 THEN raw * WORLD_SIZE(rank) ELSE raw
    IN  IF quad THEN l1 * QuadFactor ELSE l1

CombinedLossSwapped(v, bpp, loss) ==
    IF v = "train"
    THEN [k \in 1..Len(bpp) |-> BppWeightTrain2 * bpp[k] + DetWeightTrain2 * loss]
    ELSE [k \in 1..Len(bpp) |-> BppWeightTrain * bpp[k] + DetWeightTrain * loss]

\* total_loss = 40 * bpp_loss + loss        (train.py, elementwise over bpp_loss)
\* total_loss = 1 * bpp_loss + 8 * loss     (train2_0602_qf80_8.py)
CombinedLoss(v, bpp, loss) ==
    IF v = "train"
    THEN [k \in 1..Len(bpp) |-> BppWeightTrain * bpp[k] + DetWeightTrain * loss]
    ELSE [k \in 1..Len(bpp) |-> BppWeightTrain2 * bpp[k] + DetWeightTrain2 * loss]

\* the bpp_loss tensors a forward pass over B images can produce:
\*   train  : bpp_loss = 1 / downscaling_factor, one element per image
\*   train2 : the estimator's code lengths reduced by sum and mean to one element
BppLosses(v, B) ==
    IF v = "train"
    THEN {[k \in 1..B |-> Reciprocal(df[k])] : df \in [1..B -> DownFactors]}
    ELSE {<<b>> : b \in BppLevels}

(***************************************************************************)
(* Weights handed to a forward pass, a validation run or a checkpoint      *)
(***************************************************************************)
\* the network object being trained
Live(net, ps) ==
    [src |-> "live", net |-> net,
     ver |-> IF net = "model" THEN ps["model"].val ELSE ps["ctl_head"].val]

\* ema.ema and ema.<control network>
Shadow(net, e) ==
    [src |-> "ema", net |-> net, ver |-> IF net = "model" THEN e.model ELSE e.ctl]

NoWeights == [src |-> "none", net |-> "none", ver |-> 0]

\* the calls of one batch iteration after the forward pass, in source order
BatchOpsStepFirst(v, doStep) ==
    (IF doStep THEN OptimizeOps(v) ELSE <<>>) \o BackwardOps(v)

BatchOpsAlwaysStep(v, doStep) ==
    BackwardOps(v) \o OptimizeOps(v)

BatchOps(v, doStep) ==
    BackwardOps(v) \o (IF doStep THEN OptimizeOps(v) ELSE <<>>)

(***************************************************************************)
(* Fitness and early stopping                                              *)
(***************************************************************************)
\* (mAP@.5, mAP@.5:.95) a validation run can return, in tenths
ValResults == {<<0, 0>>, <<1, 0>>, <<1, 1>>}

\* fitness(): weighted combination 0.1 * mAP@.5 + 0.9 * mAP@.5:.95, in hundredths
fitness(res) == 1 * res[1] + 9 * res[2]

InitStopper == [best_epoch |-> 0, best_fitness |-> 0, possible_stop |-> FALSE]

\* EarlyStopping.__call__(epoch, fitness): the updated stopper and the stop decision
StopperCall(st, patience, ep, fi) ==
    LET be == IF fi >= st.best_fitness THEN ep ELSE st.best_epoch
        bf == IF fi >= st.best_fitness THEN fi ELSE st.best_fitness
        delta == ep - be
    IN  [stopper |-> [best_epoch |-> be, best_fitness |-> bf,
                      possible_stop |-> delta >= patience - 1],
         stop |-> delta >= patience]

(***************************************************************************)
(* Checkpoints                                                             *)
(***************************************************************************)
\* a checkpoint entry that is absent or None
NoOptState == [saved |-> FALSE, state |-> 0]

NoFile ==
    [exists |-> FALSE, epoch |-> -1, best_fitness |-> 0, model |-> NoWeights,
     ema |-> NoWeights, updates |-> 0, optimizer |-> NoOptState,
     ctl_optimizer |-> NoOptState, opt |-> FALSE, date |-> FALSE, ctl |-> NoWeights]

\* ckpt = {"epoch", "best_fitness", "model", "ema", "updates", "optimizer",
\*         "dfm_optimizer"/"dln_optimizer", "opt", "git", "date",
\*         "downscaling_network"/"dynamic_luminance_network"}
MakeCkptNoCtlOptimizer(ep, bf, ps, e, os) ==
    [exists |-> TRUE, epoch |-> ep, best_fitness |-> bf,
     model |-> Live("model", ps),
     ema |-> Shadow("model", e),
     updates |-> e.updates,
     optimizer |-> [saved |-> TRUE, state |-> os["optimizer"]],
     ctl_optimizer |-> NoOptState,
     opt |-> TRUE, date |-> TRUE,
     ctl |-> Live("ctl", ps)]

MakeCkpt(ep, bf, ps, e, os) ==
    [exists |-> TRUE, epoch |-> ep, best_fitness |-> bf,
     model |-> Live("model", ps),
     ema |-> Shadow("model", e),
     updates |-> e.updates,
     optimizer |-> [saved |-> TRUE, state |-> os["optimizer"]],
     ctl_optimizer |-> [saved |-> TRUE, state |-> os["ctl_optimizer"]],
     opt |-> TRUE, date |-> TRUE,
     ctl |-> Live("ctl", ps)]

\* strip_optimizer(f): the EMA weights replace "model"; optimizer state, ema and
\* updates are dropped
StripOptimizer(f) ==
    IF f.exists
    THEN [f EXCEPT !.model = IF f.ema.src = "ema" THEN f.ema ELSE f.model,
                   !.ema = NoWeights, !.updates = 0,
                   !.optimizer = NoOptState, !.ctl_optimizer = NoOptState,
                   !.best_fitness = 0, !.epoch = -1]
    ELSE f

\* attempt_load(f): the detector stored under "ema", or under "model" without it
AttemptLoad(f) == IF f.ema.src = "ema" THEN f.ema ELSE f.model

\* validate.run(..., model=<m>, <control network>=None, <control network>_weights=f):
\* a fresh control network is built and loaded from f's control-network entry
LoadCtlFromCkpt(f) == f.ctl

NoVal == [called |-> FALSE, phase |-> "none", epoch |-> -1, model |-> NoWeights, ctl |-> NoWeights]

\* control network handed to the end-of-epoch validate.run:
\*   train.py: downscaling_network=downscaling_network
\*   train2  : dynamic_luminance_network=ema.dynamic_luminance_network
EpochValCtl(v, ps, e) ==
    IF v = "train" THEN Live("ctl", ps) ELSE Shadow("ctl", e)

(***************************************************************************)
(* Set-up code: loading --weights and resuming                             *)
(***************************************************************************)
\* the optimizers whose state smart_resume is handed:
\*   train.py : smart_resume(ckpt, optimizer, ema, weights, epochs, resume)
\*   train2   : smart_resume(ckpt, optimizer, dln_optimizer, ema, weights, epochs, resume)
ResumeOptimizers(v) ==
    IF v = "train" THEN {"optimizer"} ELSE {"optimizer", "ctl_optimizer"}

NoLoad ==
    [loaded |-> FALSE, by |-> "none", ckpt |-> NoFile, resume |-> FALSE,
     msgs |-> {}, fatal |-> FALSE]

NoDelta == [applied |-> FALSE, coefs |-> <<>>, out |-> <<>>]

NoPipe == [stage |-> "none"]

NoFwd == [stage |-> "none"]

NoLrs == [stage |-> "none"]

(***************************************************************************)
(* train(): state after the set-up code, before the epoch loop             *)
(***************************************************************************)
NoLosses ==
    [bpp_loss |-> <<>>, raw |-> 0, loss |-> 0, total_loss |-> <<>>,
     fwd_model |-> NoWeights, fwd_ctl |-> NoWeights]

InitCounts ==
    [backward |-> 0, steps |-> [o \in Optimizers |-> 0], ema |-> 0, scaler |-> 0,
     sched |-> [o \in Optimizers |-> 0], iters |-> 0]

\* the options a run can be started with; opt.batch_size is a multiple of WORLD_SIZE
Options(rank) ==
    [batch_size : {WORLD_SIZE(rank) * b : b \in 1..MaxBatch},
     quad : BOOLEAN, noval : BOOLEAN, nosave : BOOLEAN,
     patience : {1, MaxEpochs + 1},
     epochs : {MaxEpochs}, nb : {MaxBatches},
     start_epoch : 0..1]

TrainInit ==
    /\ variant \in Variants
    /\ RANK \in {-1, 0, 1}
    /\ opt \in Options(RANK)
    /\ pc = "epoch_start"
    /\ epoch = opt.start_epoch
    /\ i = 0
    /\ last_opt_step = -1
    /\ accumulate = InitAccumulate(opt)
    /\ params = InitParams(variant)
    \* ema = ExtendedModelEMA(...) if RANK in {-1, 0} else None; a resumed run
    \* takes ema.updates and best_fitness from the checkpoint
    /\ ema = [on |-> RANK \in {-1, 0},
              updates |-> IF RANK \in {-1, 0} THEN opt.start_epoch ELSE 0,
              model |-> 0, ctl |-> 0]
    /\ events = <<>>
    /\ step_log = [o \in Optimizers |-> NoStep]
    /\ counts = InitCounts
    /\ losses = NoLosses
    /\ \E bf \in {0, 1} :
         fit = [results |-> <<0, 0>>, fi |-> 0,
                best_fitness |-> IF opt.start_epoch > 0 THEN bf ELSE 0,
                stopper |-> InitStopper, stop |-> FALSE]
    /\ val_log = NoVal
    /\ files = [last |-> NoFile, best |-> NoFile]
    \* a resumed run takes the optimizer state from the checkpoint, for the
    \* optimizers handed to smart_resume
    /\ ostate = [o \in Optimizers |->
                    IF o \in ResumeOptimizers(variant) THEN opt.start_epoch ELSE 0]
    /\ load_log = NoLoad

Init ==
    /\ TrainInit
    /\ ranks = <<>>
    /\ chan = <<>>
    /\ dlt = NoDelta
    /\ pipe = NoPipe
    /\ fwd = NoFwd
    /\ lrs = NoLrs

(***************************************************************************)
(* train(): the epoch loop                                                 *)
(***************************************************************************)
\* top of `for epoch in range(start_epoch, epochs)`: model.train(),
\* optimizer.zero_grad(), <control optimizer>.zero_grad()
EpochStart ==
    /\ pc = "epoch_start"
    /\ LET m0 == [params |-> params, events |-> <<>>, step_log |-> step_log,
                  counts |-> counts, ema |-> ema, ostate |-> ostate]
           m1 == ZeroGrad(ZeroGrad(m0, "optimizer"), "ctl_optimizer")
       IN  /\ params' = m1.params
           /\ events' = <<>>
    /\ step_log' = [o \in Optimizers |-> NoStep]
    /\ i' = 0
    /\ pc' = "batch"
    /\ UNCHANGED <<variant, RANK, opt, epoch, last_opt_step, accumulate, ema, counts,
                   losses, fit, val_log, files, ostate, load_log, ranks, chan, dlt, pipe, fwd, lrs>>

\* one iteration of `for i, (imgs, targets, paths, _) in pbar`
TrainBatch ==
    /\ pc = "batch"
    /\ \E bpp \in BppLosses(variant, LocalBatch(opt, RANK)),
          raw \in 1..MaxLoss,
          stop_training \in BOOLEAN :
        LET ni == i + opt.nb * epoch
            acc == IF ni <= nw(opt) THEN WarmupAccumulate(opt, ni) ELSE accumulate
            loss == DetLoss(raw, RANK, opt.quad)
            total_loss == CombinedLoss(variant, bpp, loss)
            doStep == ni - last_opt_step >= acc
            m0 == [params |-> params, events |-> <<"forward">>,
                   step_log |-> [o \in Optimizers |-> NoStep],
                   counts |-> [counts EXCEPT !.iters = @ + 1], ema |-> ema,
                   ostate |-> ostate]
            m1 == Run(BatchOps(variant, doStep), m0, ni)
        IN  /\ stop_training => RANK \in {-1, 0}
            /\ accumulate' = acc
            /\ losses' = [bpp_loss |-> bpp, raw |-> raw, loss |-> loss,
                          total_loss |-> total_loss,
                          fwd_model |-> Live("model", params),
                          fwd_ctl |-> Live("ctl", params)]
            /\ IF Len(total_loss) # 1
               THEN \* backward() on a tensor of several elements raises
                    /\ ~stop_training
                    /\ pc' = "error"
                    /\ events' = <<"forward", "backward_raises">>
                    /\ step_log' = [o \in Optimizers |-> NoStep]
                    /\ UNCHANGED <<params, ema, counts, last_opt_step, i, ostate>>
               ELSE /\ params' = m1.params
                    /\ ema' = m1.ema
                    /\ events' = m1.events
                    /\ step_log' = m1.step_log
                    /\ counts' = m1.counts
                    /\ ostate' = m1.ostate
                    /\ last_opt_step' = IF doStep THEN ni ELSE last_opt_step
                    /\ IF stop_training
                       THEN pc' = "returned" /\ i' = i
                       ELSE IF i + 1 < opt.nb
                            THEN pc' = "batch" /\ i' = i + 1
                            ELSE pc' = "epoch_end" /\ i' = i
    /\ UNCHANGED <<variant, RANK, opt, epoch, fit, val_log, files, load_log,
                   ranks, chan, dlt, pipe, fwd, lrs>>

BestFitnessLatest(fi, best) == fi

\* if fi > best_fitness: best_fitness = fi
BestFitness(fi, best) == IF fi > best THEN fi ELSE best

\* after the batch loop: scheduler step(s), validation, fitness, checkpoint,
\* early-stopping decision and the end of the epoch loop body
EpochEnd ==
    /\ pc = "epoch_end"
    /\ \E res \in ValResults, received \in BOOLEAN :
        LET coordinator == RANK \in {-1, 0}
            final_epoch == (epoch + 1 = opt.epochs) \/ fit.stopper.possible_stop
            doVal == coordinator /\ (~opt.noval \/ final_epoch)
            results == IF doVal THEN res ELSE fit.results
            fi == fitness(results)
            sc == StopperCall(fit.stopper, opt.patience, epoch, fi)
            best_fitness == BestFitness(fi, fit.best_fitness)
            doSave == coordinator /\ (~opt.nosave \/ final_epoch)
            ckpt == MakeCkpt(epoch, best_fitness, params, ema, ostate)
            stop == IF RANK \in {-1, 0} THEN sc.stop ELSE received
        IN  /\ ~doVal => res = <<0, 0>>
            /\ coordinator => ~received
            \* scheduler.step(); train2 also: dln_scheduler.step()
            /\ counts' = [counts EXCEPT
                            !.sched["optimizer"] = @ + 1,
                            !.sched["ctl_optimizer"] =
                                IF variant = "train2" THEN @ + 1 ELSE @]
            /\ fit' = IF coordinator
                      THEN [results |-> results, fi |-> fi, best_fitness |-> best_fitness,
                            stopper |-> sc.stopper, stop |-> stop]
                      ELSE [fit EXCEPT !.stop = stop]
            /\ val_log' = IF doVal
                          THEN [called |-> TRUE, phase |-> "epoch", epoch |-> epoch,
                                model |-> Shadow("model", ema),
                                ctl |-> EpochValCtl(variant, params, ema)]
                          ELSE val_log
            /\ files' = IF doSave
                        THEN [last |-> ckpt,
                              best |-> IF best_fitness = fi THEN ckpt ELSE files.best]
                        ELSE files
            /\ IF stop
               THEN pc' = "end_training" /\ epoch' = epoch
               ELSE IF epoch + 1 < opt.epochs
                    THEN pc' = "epoch_start" /\ epoch' = epoch + 1
                    ELSE pc' = "end_training" /\ epoch' = epoch
    /\ UNCHANGED <<variant, RANK, opt, i, last_opt_step, accumulate, params, ema,
                   events, step_log, losses, ostate, load_log, ranks, chan, dlt, pipe, fwd, lrs>>

\* after the epoch loop: strip_optimizer on last and best, validation of best.pt
EndTraining ==
    /\ pc = "end_training"
    /\ pc' = "done"
    /\ IF RANK \in {-1, 0}
       THEN /\ files' = [last |-> StripOptimizer(files.last),
                         best |-> StripOptimizer(files.best)]
            /\ val_log' = IF files.best.exists
                          THEN [called |-> TRUE, phase |-> "final", epoch |-> epoch,
                                model |-> AttemptLoad(StripOptimizer(files.best)),
                                ctl |-> LoadCtlFromCkpt(StripOptimizer(files.best))]
                          ELSE val_log
       ELSE UNCHANGED <<files, val_log>>
    /\ UNCHANGED <<variant, RANK, opt, epoch, i, last_opt_step, accumulate, params, ema,
                   events, step_log, counts, losses, fit, ostate, load_log,
                   ranks, chan, dlt, pipe, fwd, lrs>>

Next == EpochStart \/ TrainBatch \/ EpochEnd \/ EndTraining

Spec == Init /\ [][Next]_vars

(***************************************************************************)
(* SpecResume: --weights / --resume in the set-up code of train(), the     *)
(* epoch loop, and run() of val2 on a weights file                         *)
(***************************************************************************)
\* a pretrained detector checkpoint that was not written by this program
\* (no control-network entry, no optimizer state, no EMA)
ForeignCkpt ==
    [NoFile EXCEPT !.exists = TRUE,
                   !.model = [src |-> "live", net |-> "model", ver |-> 0],
                   !.opt = TRUE, !.date = TRUE]

\* `if "<control network>" in ckpt`
HasCtlEntry(ckpt) == ckpt.ctl.src # "none"

\* a control network as constructed, before any load_state_dict
FreshCtl == [src |-> "fresh", net |-> "ctl", ver |-> 0]

\* what the set-up code prints or logs after model.load_state_dict(csd):
\*   train.py : print("Loaded downscaling_network ...") inside the `if`, then
\*              LOGGER.info("Transferred ...") in every case
\*   train2   : print(...) in the `if`, LOGGER.info("Transferred ...") in the `else`
LoadMessages(v, ckpt) ==
    IF v = "train"
    THEN (IF HasCtlEntry(ckpt) THEN {"ctl_loaded"} ELSE {}) \cup {"transferred"}
    ELSE (IF HasCtlEntry(ckpt) THEN {"ctl_loaded"} ELSE {"transferred"})

\* `if pretrained:` branch of the set-up code: the detector is loaded from
\* ckpt["model"], the control network from its entry when the entry exists
LoadWeights(v, ckpt) ==
    [params |-> [p \in ParamNames(v) |->
                    [InitParams(v)[p] EXCEPT
                        !.val = IF p = "model" THEN ckpt.model.ver
                                ELSE IF p = "ctl_head" /\ HasCtlEntry(ckpt) THEN ckpt.ctl.ver
                                ELSE 0]],
     msgs |-> LoadMessages(v, ckpt),
     fatal |-> FALSE]

\* ema = ExtendedModelEMA(model, <control network>) followed by smart_resume(...):
\* best_fitness and start_epoch from the checkpoint, load_state_dict on the
\* optimizers handed over, the EMA of the detector and its update counter
SmartResume(v, ckpt, ctl_ver) ==
    [best_fitness |-> ckpt.best_fitness,
     start_epoch |-> ckpt.epoch + 1,
     ostate |-> [o \in Optimizers |->
                    IF o \in ResumeOptimizers(v) /\ ckpt[o].saved THEN ckpt[o].state ELSE 0],
     ema |-> [on |-> TRUE,
              updates |-> IF ckpt.ema.src = "ema" THEN ckpt.updates ELSE 0,
              model |-> IF ckpt.ema.src = "ema" THEN ckpt.ema.ver ELSE ckpt.model.ver,
              ctl |-> ctl_ver]]

\* run() of val2 called with a model and without a control network:
\* checkpoint['dynamic_luminance_network'] is read without a membership test
ValLoadCtlTrainingPath(f) ==
    IF HasCtlEntry(f)
    THEN [ctl |-> LoadCtlFromCkpt(f), msgs |-> {"ctl_loaded"}, fatal |-> FALSE]
    ELSE [ctl |-> NoWeights, msgs |-> {}, fatal |-> TRUE]

\* run() of val2 called directly:
\* `if 'dynamic_luminance_network' in ckpt: load ... else: print("No ... found")`
ValLoadCtlDirect(f) ==
    IF HasCtlEntry(f)
    THEN [ctl |-> f.ctl, msgs |-> {"ctl_loaded"}, fatal |-> FALSE]
    ELSE [ctl |-> FreshCtl, msgs |-> {"no_ctl_found"}, fatal |-> FALSE]

InitResume ==
    /\ variant \in Variants
    /\ RANK \in {-1, 0}
    /\ opt \in {o \in Options(RANK) :
                    /\ o.batch_size = WORLD_SIZE(RANK)
                    /\ ~o.quad /\ ~o.nosave
                    /\ o.patience = MaxEpochs + 1
                    /\ o.start_epoch = 0}
    /\ pc = "setup"
    /\ epoch = 0
    /\ i = 0
    /\ last_opt_step = -1
    /\ accumulate = InitAccumulate(opt)
    /\ params = InitParams(variant)
    /\ ema = [on |-> TRUE, updates |-> 0, model |-> 0, ctl |-> 0]
    /\ events = <<>>
    /\ step_log = [o \in Optimizers |-> NoStep]
    /\ counts = InitCounts
    /\ losses = NoLosses
    /\ fit = [results |-> <<0, 0>>, fi |-> 0, best_fitness |-> 0,
              stopper |-> InitStopper, stop |-> FALSE]
    /\ val_log = NoVal
    /\ files = [last |-> NoFile, best |-> NoFile]
    /\ ostate = [o \in Optimizers |-> 0]
    /\ load_log = NoLoad
    /\ ranks = <<>>
    /\ chan = <<>>
    /\ dlt = NoDelta
    /\ pipe = NoPipe
    /\ fwd = NoFwd
    /\ lrs = NoLrs

\* set-up code of a run that does not resume: --weights '' or a pretrained detector
Setup ==
    /\ pc = "setup"
    /\ \E pretrained \in BOOLEAN :
        LET ld == LoadWeights(variant, ForeignCkpt)
        IN  IF pretrained
            THEN /\ params' = ld.params
                 /\ load_log' = [loaded |-> TRUE, by |-> "train", ckpt |-> ForeignCkpt,
                                  resume |-> FALSE, msgs |-> ld.msgs, fatal |-> ld.fatal]
            ELSE UNCHANGED <<params, load_log>>
    /\ pc' = "epoch_start"
    /\ UNCHANGED <<variant, RANK, opt, epoch, i, last_opt_step, accumulate, ema, events,
                   step_log, counts, losses, fit, val_log, files, ostate,
                   ranks, chan, dlt, pipe, fwd, lrs>>

\* a new process started with --resume on last.pt after the run returned from
\* the batch loop: the whole set-up code up to the epoch loop
Resume ==
    /\ pc = "returned"
    /\ ~load_log.resume
    /\ files.last.exists
    /\ files.last.epoch + 1 < opt.epochs
    /\ LET ckpt == files.last
           ld == LoadWeights(variant, ckpt)
           sr == SmartResume(variant, ckpt, ld.params["ctl_head"].val)
       IN  /\ params' = ld.params
           /\ ema' = sr.ema
           /\ ostate' = sr.ostate
           /\ opt' = [opt EXCEPT !.start_epoch = sr.start_epoch]
           /\ epoch' = sr.start_epoch
           /\ fit' = [results |-> <<0, 0>>, fi |-> 0, best_fitness |-> sr.best_fitness,
                      stopper |-> InitStopper, stop |-> FALSE]
           /\ load_log' = [loaded |-> TRUE, by |-> "train", ckpt |-> ckpt,
                            resume |-> TRUE, msgs |-> ld.msgs, fatal |-> ld.fatal]
           /\ accumulate' = InitAccumulate(opt)
    /\ pc' = "epoch_start"
    /\ i' = 0
    /\ last_opt_step' = -1
    /\ events' = <<>>
    /\ step_log' = [o \in Optimizers |-> NoStep]
    /\ counts' = InitCounts
    /\ losses' = NoLosses
    /\ val_log' = NoVal
    /\ UNCHANGED <<variant, RANK, files, ranks, chan, dlt, pipe, fwd, lrs>>

\* run() of val2 on a weights file after training: called directly, or with a
\* loaded detector and the file as dynamic_luminance_network_weights
ValRun ==
    /\ pc = "done"
    /\ variant = "train2"
    /\ \E f \in {files.last, ForeignCkpt}, direct \in BOOLEAN :
        LET ld == IF direct THEN ValLoadCtlDirect(f) ELSE ValLoadCtlTrainingPath(f)
        IN  /\ f.exists
            /\ load_log' = [loaded |-> TRUE, by |-> IF direct THEN "val_direct" ELSE "val_called",
                             ckpt |-> f, resume |-> load_log.resume,
                             msgs |-> ld.msgs, fatal |-> ld.fatal]
            /\ val_log' = IF ld.fatal THEN val_log
                          ELSE [called |-> TRUE, phase |-> "weights", epoch |-> -1,
                                model |-> AttemptLoad(f), ctl |-> ld.ctl]
            /\ pc' = IF ld.fatal THEN "error" ELSE "validated"
    /\ UNCHANGED <<variant, RANK, opt, epoch, i, last_opt_step, accumulate, params, ema,
                   events, step_log, counts, losses, fit, files, ostate,
                   ranks, chan, dlt, pipe, fwd, lrs>>

NextResume == Setup \/ EpochStart \/ TrainBatch \/ EpochEnd \/ EndTraining \/ Resume \/ ValRun

SpecResume == InitResume /\ [][NextResume]_vars

(***************************************************************************)
(* SpecDelta: delta_encode on block-sequence tensors of shape (B, C, P, 64)*)
(***************************************************************************)
Abs(x) == IF x < 0 THEN -x ELSE x

RECURSIVE Pow2(_)
Pow2(n) == IF n = 0 THEN 1 ELSE 2 * Pow2(n - 1)

\* coefficients per 8x8 block
BlockLen == 64

\* spacing of the dtype's values around a magnitude n
RECURSIVE Ulp(_, _)
Ulp(n, u) == IF n < u * Pow2(MantBits) THEN u ELSE Ulp(n, 2 * u)

\* the value of the dtype nearest to the real number x, ties to the even significand
Fl(x) ==
    LET n == Abs(x)
        u == Ulp(n, 1)
        q == n \div u
        r2 == 2 * (n % u)
        m == IF r2 < u THEN q * u
             ELSE IF r2 > u THEN (q + 1) * u
             ELSE IF q % 2 = 0 THEN q * u ELSE (q + 1) * u
    IN  IF x < 0 THEN -m ELSE m

\* tensor subtraction and addition, elementwise results rounded to the dtype
FSub(a, b) == Fl(a - b)

FAdd(a, b) == Fl(a + b)

\* the assignments of the body with the subtraction taken from the first block
DeltaEncodeChannelFromFirst(rows) ==
    LET P == Len(rows)
        ac == [p \in 1..P |-> SubSeq(rows[p], 2, Len(rows[p]))]
        dc == [p \in 1..P |-> SubSeq(rows[p], 1, 1)]
        diff == [p \in 1..(P - 1) |-> <<FSub(dc[p + 1][1], dc[1][1])>>]
        dcn == SubSeq(dc, 1, 1) \o diff
    IN  [p \in 1..P |-> dcn[p] \o ac[p]]

\* the assignments of the body with the operands of the subtraction exchanged
DeltaEncodeChannelReversed(rows) ==
    LET P == Len(rows)
        ac == [p \in 1..P |-> SubSeq(rows[p], 2, Len(rows[p]))]
        dc == [p \in 1..P |-> SubSeq(rows[p], 1, 1)]
        diff == [p \in 1..(P - 1) |-> <<FSub(dc[p][1], dc[p + 1][1])>>]
        dcn == SubSeq(dc, 1, 1) \o diff
    IN  [p \in 1..P |-> dcn[p] \o ac[p]]

\* delta_encode on the block sequence of one batch item and channel:
\*   ac = coefs[..., 1:]
\*   dc = coefs[..., 0:1]
\*   dc = torch.cat([dc[..., 0:1, :], dc[..., 1:, :] - dc[..., :-1, :]], dim=-2)
\*   return torch.cat([dc, ac], dim=-1)
DeltaEncodeChannel(rows) ==
    LET P == Len(rows)
        ac == [p \in 1..P |-> SubSeq(rows[p], 2, Len(rows[p]))]
        dc == [p \in 1..P |-> SubSeq(rows[p], 1, 1)]
        head == SubSeq(dc, 1, 1)
        upper == SubSeq(dc, 2, P)
        lower == SubSeq(dc, 1, P - 1)
        diff == [p \in 1..(P - 1) |-> <<FSub(upper[p][1], lower[p][1])>>]
        dcn == head \o diff
    IN  [p \in 1..P |-> dcn[p] \o ac[p]]

\* delta_encode(coefs): the leading dimensions (batch, channel) are kept
delta_encode(coefs) ==
    [b \in DOMAIN coefs |-> [c \in DOMAIN coefs[b] |-> DeltaEncodeChannel(coefs[b][c])]]

\* DC values of the input tensors: small integers and one value of the dtype
\* beyond the range in which every integer is exact
DCVals == {0, 1, -2, Pow2(MantBits + 1)}

\* AC coefficient k of block p of channel c of batch item b, for pattern a
ACCoef(a, b, c, p, k) == ((a + b + 2 * c + 3 * p + k) % 3) - 1

\* the tensors drawn as arguments: shape (B, C, P, 64)
DeltaInputsOf(P) ==
    {[b \in 1..B |-> [c \in 1..C |-> [p \in 1..P |->
          [k \in 1..BlockLen |->
              IF k = 1 THEN (IF (b + c) % 2 = 0 THEN dcs[p] ELSE dcs[P + 1 - p])
              ELSE ACCoef(a, b, c, p, k)]]]] :
        B \in 1..MaxBatch, C \in {1, 3}, dcs \in [1..P -> DCVals], a \in 0..1}

DeltaInputs == UNION {DeltaInputsOf(P) : P \in 1..MaxBlocks}

\* every variable of train() at rest: no training process is running
TrainIdle ==
    /\ variant = "train2"
    /\ RANK = -1
    /\ opt \in {o \in Options(-1) : /\ o.batch_size = 1 /\ ~o.quad /\ ~o.noval /\ ~o.nosave
                                     /\ o.patience = 1 /\ o.start_epoch = 0}
    /\ pc = "idle"
    /\ epoch = 0
    /\ i = 0
    /\ last_opt_step = -1
    /\ accumulate = InitAccumulate(opt)
    /\ params = InitParams(variant)
    /\ ema = [on |-> FALSE, updates |-> 0, model |-> 0, ctl |-> 0]
    /\ events = <<>>
    /\ step_log = [o \in Optimizers |-> NoStep]
    /\ counts = InitCounts
    /\ losses = NoLosses
    /\ fit = [results |-> <<0, 0>>, fi |-> 0, best_fitness |-> 0,
              stopper |-> InitStopper, stop |-> FALSE]
    /\ val_log = NoVal
    /\ files = [last |-> NoFile, best |-> NoFile]
    /\ ostate = [o \in Optimizers |-> 0]
    /\ load_log = NoLoad
    /\ ranks = <<>>
    /\ chan = <<>>

InitDelta ==
    /\ TrainIdle
    /\ \E x \in DeltaInputs : dlt = [applied |-> FALSE, coefs |-> x, out |-> <<>>]
    /\ pipe = NoPipe
    /\ fwd = NoFwd
    /\ lrs = NoLrs

\* blocks = delta_encode(blocks)
ApplyDeltaEncode ==
    /\ ~dlt.applied
    /\ dlt.coefs # <<>>
    /\ dlt' = [dlt EXCEPT !.applied = TRUE, !.out = delta_encode(dlt.coefs)]
    /\ UNCHANGED <<trainVars, ddpVars, pipe, fwd, lrs>>

NextDelta == ApplyDeltaEncode

SpecDelta == InitDelta /\ [][NextDelta]_vars

(***************************************************************************)
(* SpecPipe: one forward pass through the compression surrogate, in        *)
(* train() of train2 and in run() of val2                                  *)
(***************************************************************************)
\* side of a block: TJ_block.blockify(quantized_dct, 8)
BlockSize == 8

\* quality = 80
Quality == 80

\* gs = max(int(model.stride.max()), 32)
MinGridSize == 32

\* --imgsz values a run can be started with, and the detector's maximum stride
ImgRequests == {20, 64}

ModelStrides == {16, 32}

\* check_img_size(imgsz, s, floor): the size rounded up to a multiple of s, at least floor
CheckImgSize(x, sdiv, floor) == Max(((x + sdiv - 1) \div sdiv) * sdiv, floor)

TrainImgSizeUnchecked(req, stride) == req

\* train(): gs = max(int(model.stride.max()), 32)
\*          imgsz = check_img_size(opt.imgsz, gs, floor=gs * 2)
TrainImgSize(req, stride) ==
    CheckImgSize(req, Max(stride, MinGridSize), 2 * Max(stride, MinGridSize))

\* run() called directly: imgsz = check_img_size(imgsz, s=stride)
ValImgSize(req, stride) == CheckImgSize(req, stride, 0)

\* (height, width) of the batches of the train loader built with imgsz:
\* square batches, rectangular batches under --rect, and the batch after the
\* --multi-scale resize to another multiple of gs
TrainBatchShapes(imgsz, gs) ==
    {<<imgsz, imgsz>>, <<imgsz - gs, imgsz>>, <<imgsz + gs, imgsz + gs>>}

\* (height, width) of the batches of the val loader (rect=True, pad=0.5)
ValBatchShapes(imgsz, stride) ==
    {<<imgsz, imgsz>>} \cup (IF imgsz > stride THEN {<<imgsz - stride, imgsz>>} ELSE {})

\* im_jpeg = F.interpolate(im, size=(imgsz, imgsz), ...)
ValResize(shape, imgsz) == <<imgsz, imgsz>>

CompressCallsAllLuma ==
    <<[chan |-> 0, quality |-> Quality, table |-> "luma"],
      [chan |-> 1, quality |-> Quality, table |-> "luma"],
      [chan |-> 2, quality |-> Quality, table |-> "luma"]>>

\* TJ_ijg.compress_coefficients(resized_imgs_to_ycbcr[:, c:c+1, :, :], quality, table)
\* for the planes concatenated into quantized_dct, in order
CompressCalls ==
    <<[chan |-> 0, quality |-> Quality, table |-> "luma"],
      [chan |-> 1, quality |-> Quality, table |-> "chroma"],
      [chan |-> 2, quality |-> Quality, table |-> "chroma"]>>

\* TJ_ijg.decompress_coefficients(quantized_dct_<plane>, quality, table)
\* for the planes concatenated into dequantized_dct, in order; from is the
\* position in CompressCalls of the plane it is applied to
DecompressCalls ==
    <<[from |-> 1, quality |-> Quality, table |-> "luma"],
      [from |-> 2, quality |-> Quality, table |-> "chroma"],
      [from |-> 3, quality |-> Quality, table |-> "chroma"]>>

\* the planes of quantized_dct and dequantized_dct with the calls that made them
Planes ==
    [c \in 1..3 |->
        [chan |-> CompressCalls[c].chan,
         q_table |-> CompressCalls[c].table, q_quality |-> CompressCalls[c].quality,
         dq_of |-> CompressCalls[DecompressCalls[c].from].chan,
         dq_table |-> DecompressCalls[c].table, dq_quality |-> DecompressCalls[c].quality]]

\* quantized coefficient at (b, c, y, x) of the tensor drawn for seed s: small integers
QuantCoef(s, b, c, y, x) == ((5 * y + 3 * x + 2 * c + b + s * (1 + y)) % 9) - 4

\* quantized_dct of shape (B, 3, H, W)
QuantizedDct(s, B, H, W) ==
    [b \in 1..B |-> [c \in 1..3 |-> [y \in 1..H |-> [x \in 1..W |->
        QuantCoef(s, b, c, y, x)]]]]

\* TJ_block.blockify(plane, 8) followed by rearrange "p h w -> p (h w)", on one
\* plane: non-overlapping blocks in row-major order, each flattened row-major;
\* rows and columns beyond the last whole block are dropped (unfold)
BlockifyFlat(plane, H, W) ==
    LET nby == H \div BlockSize
        nbx == W \div BlockSize
    IN  [p \in 1..(nby * nbx) |-> [k \in 1..(BlockSize * BlockSize) |->
            plane[BlockSize * ((p - 1) \div nbx) + ((k - 1) \div BlockSize) + 1]
                 [BlockSize * ((p - 1) % nbx) + ((k - 1) % BlockSize) + 1]]]

\* fold accepts the blocks only when their number is that of the output size
DeblockifyFits(nblocks, H, W) == nblocks = (H \div BlockSize) * (W \div BlockSize)

\* rearrange "p (h w) -> p h w" followed by TJ_block.deblockify(blocks, (H, W)),
\* on one plane
DeblockifyFlat(rows, H, W) ==
    LET nbx == W \div BlockSize
    IN  [y \in 1..H |-> [x \in 1..W |->
            IF y <= BlockSize * (H \div BlockSize) /\ x <= BlockSize * nbx
            THEN rows[((y - 1) \div BlockSize) * nbx + ((x - 1) \div BlockSize) + 1]
                     [((y - 1) % BlockSize) * BlockSize + ((x - 1) % BlockSize) + 1]
            ELSE 0]]

\* zigzag_indices of TJ_dct.zigzag: position in the scan of raster coefficient i
zigzag_indices ==
    << 0,  1,  5,  6, 14, 15, 27, 28,
       2,  4,  7, 13, 16, 26, 29, 42,
       3,  8, 12, 17, 25, 30, 41, 43,
       9, 11, 18, 24, 31, 40, 44, 53,
      10, 19, 23, 32, 39, 45, 52, 54,
      20, 22, 33, 38, 46, 51, 55, 60,
      21, 34, 37, 47, 50, 56, 59, 61,
      35, 36, 48, 49, 57, 58, 62, 63>>

\* raster coefficient (1-based) found at position k (1-based) of the scan
ZigzagSource == [k \in 1..64 |-> CHOOSE r \in 1..64 : zigzag_indices[r] = k - 1]

\* TJ_dct.zigzag(plane): the plane cut into 8x8 blocks, each block's 64
\* coefficients reordered into the scan, shape (L, 64)
Zigzag(plane, H, W) ==
    LET flat == BlockifyFlat(plane, H, W)
    IN  [n \in 1..Len(flat) |-> [k \in 1..64 |-> flat[n][ZigzagSource[k]]]]

\* (torch.log(torch.abs(x) + 1)) / torch.log(2): the value log2(|x| + 1),
\* represented by its antilogarithm |x| + 1
LogScale(x) == Abs(x) + 1

\* DC_Predictor.forward on x.reshape(-1, 1): a fixed function of the one input
\* value of each row (the network is frozen)
DCPredict(x) == (3 * x[1]) % 5

RECURSIVE WeightedSum(_, _)
WeightedSum(x, k) == IF k = 0 THEN 0 ELSE WeightedSum(x, k - 1) + ((k % 4) + 1) * x[k]

\* AC_Predictor.forward on x.reshape(-1, 63, 1): a fixed function of the
\* sequence of 63 input values of each row, sensitive to their order
ACPredict(x) == WeightedSum(x, Len(x)) % 7

ModelBppEstimatorDcTwice(row) ==
    LET dc_in == SubSeq(row, 1, 1)
        ac_in == SubSeq(row, 2, Len(row))
    IN  [dc_in |-> dc_in, ac_in |-> ac_in, out |-> DCPredict(dc_in) + DCPredict(dc_in)]

\* Model_bpp_estimator.forward on one row:
\*   dc_cl = self.dc_predictor(x[..., 0]); ac_cl = self.ac_predictor(x[..., 1:])
\*   outputs = dc_cl + ac_cl
ModelBppEstimator(row) ==
    LET dc_in == SubSeq(row, 1, 1)
        ac_in == SubSeq(row, 2, Len(row))
    IN  [dc_in |-> dc_in, ac_in |-> ac_in, out |-> DCPredict(dc_in) + ACPredict(ac_in)]

\* blocks = TJ_block.blockify(quantized_dct, 8)
\* blocks = rearrange(blocks, "b c p h w -> b c p (h w)")
BlockifyStep(q, H, W) ==
    [b \in 1..Len(q) |-> [c \in 1..3 |-> BlockifyFlat(q[b][c], H, W)]]

\* blocks = rearrange(blocks, "b c p (h w) -> b c p h w", h=8, w=8)
\* blocks = TJ_block.deblockify(blocks, (imgsz, imgsz))
DeblockifyStep(blocks, size) ==
    [b \in 1..Len(blocks) |-> [c \in 1..3 |->
        DeblockifyFlat(blocks[b][c], size[1], size[2])]]

\* blocks = TJ_dct.zigzag(blocks)
\* blocks = rearrange(blocks, "b c n co -> b (c n) co")
\* blocks = (torch.log(torch.abs(blocks) + 1)) / (torch.log(torch.Tensor([2])))
\* blocks = rearrange(blocks, "b cn co -> (b cn) co")
EstimatorRows(image, size) ==
    LET B == Len(image)
        n == (size[1] \div BlockSize) * (size[2] \div BlockSize)
    IN  [r \in 1..(B * 3 * n) |->
            LET zz == Zigzag(image[((r - 1) \div (3 * n)) + 1]
                                  [(((r - 1) % (3 * n)) \div n) + 1], size[1], size[2])
            IN  [k \in 1..64 |-> LogScale(zz[((r - 1) % n) + 1][k])]]

RECURSIVE SumOut(_, _, _)
SumOut(est, from, to) ==
    IF from > to THEN 0
    ELSE IF from = to THEN est[to].out
    ELSE SumOut(est, from, (from + to) \div 2) + SumOut(est, ((from + to) \div 2) + 1, to)

BppLossMeanOfMeans(est, B, shape) ==
    [num |-> SumOut(est, 1, Len(est)), den |-> Len(est) * B * shape[1] * shape[2] * shape[3]]

\* train2: bpp_loss = rearrange(pred_code_len, "(b p1) 1 -> b p1", b=quantized_dct.shape[0])
\*         bpp_loss = torch.sum(bpp_loss, dim=1); bpp_loss = torch.mean(bpp_loss)
\*         bpp_loss = bpp_loss / (shape[1] * shape[2] * shape[3])
\* as the fraction num / den; shape is (C, H, W) of quantized_dct
BppLossTrain(est, B, shape) ==
    LET p1 == Len(est) \div B
        sums == [b \in 1..B |-> SumOut(est, (b - 1) * p1 + 1, b * p1)]
        total == SumOut([b \in 1..B |-> [out |-> sums[b]]], 1, B)
    IN  [num |-> total, den |-> B * (shape[1] * shape[2] * shape[3])]

\* val2: the same four statements (lines 516-520)
BppLossVal(est, B, shape) ==
    LET p1 == Len(est) \div B
        sums == [b \in 1..B |-> SumOut(est, (b - 1) * p1 + 1, b * p1)]
        total == SumOut([b \in 1..B |-> [out |-> sums[b]]], 1, B)
    IN  [num |-> total, den |-> B * (shape[1] * shape[2] * shape[3])]

NoTensor == <<>>

InitPipe ==
    /\ TrainIdle
    /\ dlt = NoDelta
    /\ fwd = NoFwd
    /\ lrs = NoLrs
    /\ \E mode \in {"train", "val"}, req \in ImgRequests, stride \in ModelStrides :
         pipe = [stage |-> "start", mode |-> mode, req |-> req, stride |-> stride,
                 imgsz |-> 0, B |-> 0, seed |-> 0, in_shape |-> <<0, 0>>,
                 enter_shape |-> <<0, 0>>, planes |-> <<>>, q |-> NoTensor,
                 blocks |-> NoTensor, est |-> <<>>, bpp |-> [num |-> 0, den |-> 1]]

\* the set-up code that fixes imgsz before the loaders are built
PipeCheckImgSize ==
    /\ pipe.stage = "start"
    /\ pipe' = [pipe EXCEPT
                  !.stage = "sized",
                  !.imgsz = IF pipe.mode = "train" THEN TrainImgSize(pipe.req, pipe.stride)
                            ELSE ValImgSize(pipe.req, pipe.stride)]
    /\ UNCHANGED <<trainVars, ddpVars, dlt, fwd, lrs>>

\* one batch from the loader up to quantized_dct = torch.cat(...)
PipeQuantize ==
    /\ pipe.stage = "sized"
    /\ \E B \in 1..MaxBatch, s \in 0..MaxSeed,
          shape \in (IF pipe.mode = "train"
                     THEN TrainBatchShapes(pipe.imgsz, Max(pipe.stride, MinGridSize))
                     ELSE ValBatchShapes(pipe.imgsz, pipe.stride)) :
        LET enter == IF pipe.mode = "train" THEN shape ELSE ValResize(shape, pipe.imgsz)
        IN  /\ shape[1] > 0
            /\ pipe' = [pipe EXCEPT !.stage = "quantized", !.B = B, !.seed = s,
                                    !.in_shape = shape, !.enter_shape = enter,
                                    !.planes = Planes,
                                    !.q = QuantizedDct(s, B, enter[1], enter[2])]
    /\ UNCHANGED <<trainVars, ddpVars, dlt, fwd, lrs>>

\* blocks = TJ_block.blockify(quantized_dct, 8) and the rearrange after it
PipeBlockify ==
    /\ pipe.stage = "quantized"
    /\ pipe' = [pipe EXCEPT
                  !.stage = "blockified",
                  !.blocks = BlockifyStep(pipe.q, pipe.enter_shape[1], pipe.enter_shape[2])]
    /\ UNCHANGED <<trainVars, ddpVars, dlt, fwd, lrs>>

\* blocks = delta_encode(blocks)
PipeDeltaEncode ==
    /\ pipe.stage = "blockified"
    /\ pipe' = [pipe EXCEPT !.stage = "encoded", !.blocks = delta_encode(pipe.blocks)]
    /\ UNCHANGED <<trainVars, ddpVars, dlt, fwd, lrs>>

\* blocks = TJ_block.deblockify(blocks, (imgsz, imgsz)); fold raises when the
\* number of blocks is not that of the output size
PipeDeblockify ==
    /\ pipe.stage = "encoded"
    /\ pipe' = IF DeblockifyFits(Len(pipe.blocks[1][1]), pipe.imgsz, pipe.imgsz)
               THEN [pipe EXCEPT
                       !.stage = "deblockified",
                       !.blocks = DeblockifyStep(pipe.blocks, <<pipe.imgsz, pipe.imgsz>>)]
               ELSE [pipe EXCEPT !.stage = "error"]
    /\ UNCHANGED <<trainVars, ddpVars, dlt, fwd, lrs>>

\* blocks = TJ_dct.zigzag(blocks) up to the rows "(b cn) co" handed to bitEstimator
PipeZigzag ==
    /\ pipe.stage = "deblockified"
    /\ pipe' = [pipe EXCEPT
                  !.stage = "rows",
                  !.blocks = EstimatorRows(pipe.blocks, <<pipe.imgsz, pipe.imgsz>>)]
    /\ UNCHANGED <<trainVars, ddpVars, dlt, fwd, lrs>>

\* pred_code_len = bitEstimator(blocks) and the four statements of bpp_loss
PipeEstimate ==
    /\ pipe.stage = "rows"
    /\ \E est \in {[r \in 1..Len(pipe.blocks) |-> ModelBppEstimator(pipe.blocks[r])]} :
        LET shape == <<3, pipe.enter_shape[1], pipe.enter_shape[2]>>
        IN  pipe' = [pipe EXCEPT
                       !.stage = "done",
                       !.est = est,
                       !.bpp = IF pipe.mode = "train" THEN BppLossTrain(est, pipe.B, shape)
                               ELSE BppLossVal(est, pipe.B, shape)]
    /\ UNCHANGED <<trainVars, ddpVars, dlt, fwd, lrs>>

NextPipe ==
    \/ PipeCheckImgSize
    \/ PipeQuantize
    \/ PipeBlockify
    \/ PipeDeltaEncode
    \/ PipeDeblockify
    \/ PipeZigzag
    \/ PipeEstimate

SpecPipe == InitPipe /\ [][NextPipe]_vars

(***************************************************************************)
(* SpecFwd: one call of a control network on one image and the divisions   *)
(* and logarithms of the transforms its output drives.  Real values are    *)
(* integers counting sixteenths; Eps stands for the 1e-6 of the source.    *)
(***************************************************************************)
\* the value 1.0
One == 16

\* pre-activations at and beyond which tanh and sigmoid return their limits
Saturation == 4

\* 1e-6: the smallest positive value of the fixed point
Eps == 1

\* nn.Tanh(): odd, non-decreasing, in [-1, 1], reaching the limits
Tanh(z) ==
    IF z >= Saturation THEN One
    ELSE IF z <= -Saturation THEN -One
    ELSE z * (One \div Saturation)

\* torch.sigmoid: non-decreasing, in [0, 1], reaching the limits
Sigmoid(z) == (Tanh(z) + One) \div 2

\* DownscalingNetwork.forward: x = (x + 1) / 2 * 3 + 1 on the Tanh output
DownscalingForward(z) == <<((Tanh(z[1]) + One) \div 2) * 3 + One>>

LuminanceForwardWide(z) == <<Sigmoid(z[1]) \div 2 + One \div 2, Sigmoid(z[2]) * 2 - One \div 2>>

\* DynamicLuminanceWeightNetwork.forward:
\*   x[:, 0] = torch.sigmoid(x[:, 0]) * 0.5 + 0.5
\*   x[:, 1] = torch.sigmoid(x[:, 1]) * 0.5 + 0.5
LuminanceForward(z) == <<Sigmoid(z[1]) \div 2 + One \div 2, Sigmoid(z[2]) \div 2 + One \div 2>>

\* torch.clamp(dynamic_luminance_weights, min=0, max=5)
Clamp05(w) == [k \in 1..Len(w) |-> IF w[k] < 0 THEN 0 ELSE IF w[k] > 5 * One THEN 5 * One ELSE w[k]]

\* pre-activations of the last layer, for any image and any weights
PreActs == (-MaxPre)..MaxPre

\* pixel values after imgs.float() / 255
PixVals == {0, One \div 2, One}

\* a / b in the fixed point, for b # 0
FDiv(a, b) == (a * One) \div b

\* luminance = 0.2126 * R + 0.7152 * G + 0.0722 * B
Luminance(px) == (3 * px[1] + 12 * px[2] + 1 * px[3]) \div One

\* torch.exp(-x) for x >= 0: in [0, 1], 1 at 0, non-increasing
ExpNeg(x) == FDiv(One, One + x)

\* sq_dist of the kernel grid: x_grid**2 + y_grid**2 for offsets -radius..radius
SqDists(kernel_size) ==
    LET radius == kernel_size \div 2
    IN  [k \in 1..(kernel_size * kernel_size) |->
            LET dx == ((k - 1) % kernel_size) - radius
                dy == ((k - 1) \div kernel_size) - radius
            IN  (dx * dx + dy * dy) * One]

RECURSIVE SeqSum(_, _)
SeqSum(s, n) == IF n = 0 THEN 0 ELSE SeqSum(s, n - 1) + s[n]

\* one division or logarithm: the value divided by (or the argument of the
\* logarithm) and what the source adds to it
Site(name, kind, value, added) == [name |-> name, kind |-> kind, value |-> value, added |-> added]

\* train.py: bpp_loss = 1 / downscaling_factor
\*           F.interpolate(imgs, scale_factor=1 / downscaling_factor, ...)
DownscalingSites(out) ==
    <<Site("bpp_loss", "div", out[1], "none"),
      Site("scale_factor", "div", out[1], "none")>>

ReinhardSitesNoEps(px, w) ==
    LET luminance == Luminance(px)
        outer == IF w = 0 THEN 0 ELSE One + FDiv(luminance, w)
    IN  <<Site("reinhard_weights", "div", w, "eps"),
          Site("reinhard_ldr", "div", outer, "one"),
          Site("reinhard_scale", "div", luminance, "eps")>>

\* ReinhardToneMapping.forward on one pixel:
\*   ldr_luminance = luminance / (1 + luminance / (weights + 1e-6))
\*   scale_factor = ldr_luminance / (luminance + 1e-6)
ReinhardSites(px, w) ==
    LET luminance == Luminance(px)
        inner == w + Eps
        outer == IF inner = 0 THEN 0 ELSE One + FDiv(luminance, inner)
    IN  <<Site("reinhard_weights", "div", inner, "eps"),
          Site("reinhard_ldr", "div", outer, "one"),
          Site("reinhard_scale", "div", luminance + Eps, "eps")>>

\* gaussian_blur: kernel = torch.exp(-sq_dist / (2 * sigma**2))
\*                kernel = kernel / kernel.sum()
BlurSites(kernel_size, sigma) ==
    LET two_sigma2 == (2 * sigma * sigma) \div One
        sq == SqDists(kernel_size)
        kernel == [k \in 1..Len(sq) |->
                      IF two_sigma2 = 0 THEN 0 ELSE ExpNeg(FDiv(sq[k], two_sigma2))]
    IN  <<Site("blur_exponent", "div", two_sigma2, "none"),
          Site("blur_normalize", "div", SeqSum(kernel, Len(kernel)), "none")>>

\* blocks = (torch.log(torch.abs(blocks) + 1)) / (torch.log(torch.Tensor([2])))
\* bpp_loss = bpp_loss / (shape[1] * shape[2] * shape[3])
SurrogateSites(coef, shape) ==
    <<Site("log_scale", "log", Abs(coef) + 1, "one"),
      Site("log_base", "div", 1, "const"),
      Site("bpp_normalize", "div", shape[1] * shape[2] * shape[3], "none")>>

\* quantized coefficients handed to the log-scale transform
CoefVals == {-3, 0, 2}

InitFwd ==
    /\ TrainIdle
    /\ dlt = NoDelta
    /\ pipe = NoPipe
    /\ lrs = NoLrs
    /\ \E net \in {"downscaling", "luminance"} :
       \E z \in (IF net = "downscaling" THEN [1..1 -> PreActs] ELSE [1..2 -> PreActs]) :
         fwd = [stage |-> "input", net |-> net, z |-> z, out |-> <<>>,
                px |-> <<0, 0, 0>>, sites |-> <<>>]

\* downscaling_factor = downscaling_network(before_dfm_imgs)          (train.py)
\* dynamic_luminance_weights = dynamic_luminance_network(imgs)        (train2)
CtlForward ==
    /\ fwd.stage = "input"
    /\ fwd' = [fwd EXCEPT
                 !.stage = "ctl_out",
                 !.out = IF fwd.net = "downscaling" THEN DownscalingForward(fwd.z)
                         ELSE LuminanceForward(fwd.z)]
    /\ UNCHANGED <<trainVars, ddpVars, dlt, pipe, lrs>>

\* the rest of the forward pass on one pixel and one coefficient
Transforms ==
    /\ fwd.stage = "ctl_out"
    /\ \E r \in PixVals, g \in PixVals, b \in PixVals, coef \in CoefVals :
        LET px == <<r, g, b>>
            weights == Clamp05(fwd.out)
            kernel_size == IF weights[2] * 10 >= 8 * One THEN 5 ELSE 3
        IN  fwd' = [fwd EXCEPT
                      !.stage = "transformed",
                      !.px = px,
                      !.sites = IF fwd.net = "downscaling" THEN DownscalingSites(fwd.out)
                                ELSE ReinhardSites(px, weights[1])
                                       \o BlurSites(kernel_size, weights[2])
                                       \o SurrogateSites(coef, <<3, 64, 64>>)]
    /\ UNCHANGED <<trainVars, ddpVars, dlt, pipe, lrs>>

NextFwd == CtlForward \/ Transforms

SpecFwd == InitFwd /\ [][NextFwd]_vars

(***************************************************************************)
(* SpecLr: the learning rates of both optimizers over a run: construction, *)
(* warmup block, scheduler steps, checkpoint and resume.  `run` is the     *)
(* process that trains (and may have been restarted from last.pt); `ref`   *)
(* is the same run without a restart.  Rates are fractions num/den of the  *)
(* units below.                                                            *)
(***************************************************************************)
\* hyp["lr0"], hyp["warmup_bias_lr"] (ten times lr0 in the shipped hyp files)
hyp_lr0 == 10

hyp_warmup_bias_lr == 100

\* hyp["warmup_momentum"] and hyp["momentum"], in thousandths
hyp_warmup_momentum == 800

hyp_momentum == 937

\* lr of the control-network optimizer: optim.Adam(..., lr=...)
ctl_lr0 == 1

\* the batch counts a loader can have: shorter and longer than the warmup floor
LrBatchCounts == {MaxBatches, LrBatches}

Rat(n, d) == [num |-> n, den |-> d]

\* lf = lambda x: (1 - x / epochs) * (1.0 - hyp["lrf"]) + hyp["lrf"], hyp["lrf"] = 0.1
lf(x, epochs) == Rat(9 * (epochs - x) + epochs, 10 * epochs)

RECURSIVE Power(_, _)
Power(b, k) == IF k = 0 THEN 1 ELSE b * Power(b, k - 1)

\* lr_lambda=lambda epoch: 0.95**epoch
dln_lambda(x) == Rat(Power(19, x), Power(20, x))

\* base_lr * lmbda(last_epoch), as LambdaLR.get_lr computes it
Scaled(base, f) == Rat(base * f.num, f.den)

\* np.interp(ni, [0, nw], [a, b]) for 0 <= ni <= nw, b a fraction
Interp(ni, nwv, a, b) == Rat(a * (nwv - ni) * b.den + b.num * ni, nwv * b.den)

\* the optimizers and schedulers as the set-up code constructs them:
\*   optimizer = smart_optimizer(model, opt.optimizer, hyp["lr0"], hyp["momentum"], ...)
\*   <control optimizer> = optim.Adam(<control network>.parameters(), lr=...)
\*   scheduler = lr_scheduler.LambdaLR(optimizer, lr_lambda=lf)
\*   dln_scheduler = optim.lr_scheduler.LambdaLR(dln_optimizer, ...)     (train2)
\* LambdaLR's constructor takes one step: last_epoch = 0, lr = base_lr * lmbda(0)
Construct(v, epochs) ==
    [opt_lr |-> [j \in 1..3 |-> Scaled(hyp_lr0, lf(0, epochs))],
     initial_lr |-> hyp_lr0,
     momentum |-> Rat(hyp_momentum, 1),
     ctl_lr |-> IF v = "train2" THEN Scaled(ctl_lr0, dln_lambda(0)) ELSE Rat(ctl_lr0, 1),
     sched |-> 0,
     ctl_sched |-> 0]

\* the optimizer entries of a checkpoint
SavedOptimizers(r) ==
    [optimizer |-> [lr |-> r.opt_lr, momentum |-> r.momentum, initial_lr |-> r.initial_lr],
     ctl_optimizer |-> [lr |-> r.ctl_lr]]

\* smart_resume: load_state_dict on each optimizer it is handed
LrSmartResume(v, r, saved) ==
    [r EXCEPT !.opt_lr = saved.optimizer.lr,
              !.momentum = saved.optimizer.momentum,
              !.initial_lr = saved.optimizer.initial_lr,
              !.ctl_lr = IF "ctl_optimizer" \in ResumeOptimizers(v)
                         THEN saved.ctl_optimizer.lr ELSE @]

\* scheduler.last_epoch = start_epoch - 1  # do not move
SetLastEpoch(r, start_epoch) == [r EXCEPT !.sched = start_epoch - 1]

WarmupBlockAllOptimizers(v, r, ni, ep, epochs, nwv) ==
    IF ni <= nwv
    THEN [r EXCEPT
            !.opt_lr = [j \in 1..3 |->
                Interp(ni, nwv, IF j = 1 THEN hyp_warmup_bias_lr ELSE 0,
                       Scaled(r.initial_lr, lf(ep, epochs)))],
            !.momentum = Interp(ni, nwv, hyp_warmup_momentum, Rat(hyp_momentum, 1)),
            !.ctl_lr = Interp(ni, nwv, 0, r.ctl_lr)]
    ELSE r

\* if ni <= nw:
\*     for j, x in enumerate(optimizer.param_groups):
\*         x["lr"] = np.interp(ni, xi, [hyp["warmup_bias_lr"] if j == 0 else 0.0,
\*                                      x["initial_lr"] * lf(epoch)])
\*         if "momentum" in x:
\*             x["momentum"] = np.interp(ni, xi, [hyp["warmup_momentum"], hyp["momentum"]])
WarmupBlock(v, r, ni, ep, epochs, nwv) ==
    IF ni <= nwv
    THEN [r EXCEPT
            !.opt_lr = [j \in 1..3 |->
                Interp(ni, nwv, IF j = 1 THEN hyp_warmup_bias_lr ELSE 0,
                       Scaled(r.initial_lr, lf(ep, epochs)))],
            !.momentum = Interp(ni, nwv, hyp_warmup_momentum, Rat(hyp_momentum, 1))]
    ELSE r

\* scheduler.step(); train2 also: dln_scheduler.step()
SchedulerSteps(v, r, epochs) ==
    [r EXCEPT
        !.sched = @ + 1,
        !.opt_lr = [j \in 1..3 |-> Scaled(hyp_lr0, lf(r.sched + 1, epochs))],
        !.ctl_sched = IF v = "train2" THEN @ + 1 ELSE @,
        !.ctl_lr = IF v = "train2" THEN Scaled(ctl_lr0, dln_lambda(r.ctl_sched + 1)) ELSE @]

InitLr ==
    /\ TrainIdle
    /\ dlt = NoDelta
    /\ pipe = NoPipe
    /\ fwd = NoFwd
    /\ \E v \in Variants, nb \in LrBatchCounts :
         lrs = [stage |-> "batch", variant |-> v, nb |-> nb, epochs |-> LrEpochs,
                start_epoch |-> 0, epoch |-> 0, i |-> 0, resumed |-> FALSE,
                run |-> SetLastEpoch(Construct(v, LrEpochs), 0),
                ref |-> SetLastEpoch(Construct(v, LrEpochs), 0),
                before |-> Construct(v, LrEpochs), ni |-> -1,
                saved |-> SavedOptimizers(Construct(v, LrEpochs)), has_ckpt |-> FALSE]

\* the warmup block of one iteration of the batch loop
LrBatch ==
    /\ lrs.stage = "batch"
    /\ LET ni == lrs.i + lrs.nb * lrs.epoch
           nwv == nw([nb |-> lrs.nb])
       IN  lrs' = [lrs EXCEPT
                     !.before = lrs.run,
                     !.ni = ni,
                     !.run = WarmupBlock(lrs.variant, lrs.run, ni, lrs.epoch, lrs.epochs, nwv),
                     !.ref = WarmupBlock(lrs.variant, lrs.ref, ni, lrs.epoch, lrs.epochs, nwv),
                     !.i = IF lrs.i + 1 < lrs.nb THEN lrs.i + 1 ELSE lrs.i,
                     !.stage = IF lrs.i + 1 < lrs.nb THEN "batch" ELSE "epoch_end"]
    /\ UNCHANGED <<trainVars, ddpVars, dlt, pipe, fwd>>

\* after the batch loop: the scheduler steps, then the checkpoint
LrEpochEnd ==
    /\ lrs.stage = "epoch_end"
    /\ LET run == SchedulerSteps(lrs.variant, lrs.run, lrs.epochs)
           ref == SchedulerSteps(lrs.variant, lrs.ref, lrs.epochs)
       IN  lrs' = [lrs EXCEPT
                     !.run = run,
                     !.ref = ref,
                     !.saved = SavedOptimizers(run),
                     !.has_ckpt = TRUE,
                     !.i = 0,
                     !.epoch = IF lrs.epoch + 1 < lrs.epochs THEN lrs.epoch + 1 ELSE lrs.epoch,
                     !.stage = IF lrs.epoch + 1 < lrs.epochs THEN "batch" ELSE "done"]
    /\ UNCHANGED <<trainVars, ddpVars, dlt, pipe, fwd>>

\* the process ends before the first checkpoint of the epoch and a new one is
\* started with --resume: the set-up code runs again, on last.pt
LrResume ==
    /\ lrs.stage = "batch"
    /\ lrs.has_ckpt
    /\ ~lrs.resumed
    /\ lrs.i = 0
    /\ lrs' = [lrs EXCEPT
                 !.resumed = TRUE,
                 !.start_epoch = lrs.epoch,
                 !.run = SetLastEpoch(
                             LrSmartResume(lrs.variant,
                                           Construct(lrs.variant, lrs.epochs), lrs.saved),
                             lrs.epoch)]
    /\ UNCHANGED <<trainVars, ddpVars, dlt, pipe, fwd>>

NextLr == LrBatch \/ LrEpochEnd \/ LrResume

SpecLr == InitLr /\ [][NextLr]_vars

(***************************************************************************)
(* DDP: the epoch loops of all ranks and the broadcast of `stop`           *)
(***************************************************************************)
RankIds == 0..(NumRanks - 1)

Followers == RankIds \ {0}

\* `if RANK != 0: stop = broadcast_list[0]`
FollowerStopLocal(local, received) == local

FollowerStop(local, received) == received

InitRank(o) ==
    [pc |-> "train", epoch |-> o.start_epoch, stop |-> FALSE, broke_at |-> -1,
     nbcast |-> 0, sent |-> <<>>, results |-> <<0, 0>>, stopper |-> InitStopper]

InitDDP ==
    /\ variant \in Variants
    /\ RANK = 0
    /\ opt \in {o \in Options(0) : ~o.quad /\ ~o.nosave /\ o.batch_size = NumRanks}
    /\ pc = "ddp"
    /\ epoch = 0
    /\ i = 0
    /\ last_opt_step = -1
    /\ accumulate = InitAccumulate(opt)
    /\ params = InitParams(variant)
    /\ ema = [on |-> FALSE, updates |-> 0, model |-> 0, ctl |-> 0]
    /\ events = <<>>
    /\ step_log = [o \in Optimizers |-> NoStep]
    /\ counts = InitCounts
    /\ losses = NoLosses
    /\ fit = [results |-> <<0, 0>>, fi |-> 0, best_fitness |-> 0,
              stopper |-> InitStopper, stop |-> FALSE]
    /\ val_log = NoVal
    /\ files = [last |-> NoFile, best |-> NoFile]
    /\ ostate = [o \in Optimizers |-> 0]
    /\ load_log = NoLoad
    /\ ranks = [r \in RankIds |-> InitRank(opt)]
    /\ chan = [r \in Followers |-> <<>>]
    /\ dlt = NoDelta
    /\ pipe = NoPipe
    /\ fwd = NoFwd
    /\ lrs = NoLrs

\* the batch loop of one epoch on rank r; on the coordinator it can end in
\* `if callbacks.stop_training: return`
RankTrainEpoch(r) ==
    /\ ranks[r].pc = "train"
    /\ \E stop_training \in BOOLEAN :
        /\ stop_training => r = 0
        /\ ranks' = [ranks EXCEPT ![r].pc = IF stop_training THEN "returned" ELSE "epoch_end"]
    /\ UNCHANGED <<trainVars, chan, pipeVars>>

\* where rank r goes after the early-stopping block of epoch ep
AfterEpoch(rk, stop, o) ==
    IF stop
    THEN [rk EXCEPT !.pc = "end_training", !.stop = stop, !.broke_at = rk.epoch]
    ELSE IF rk.epoch + 1 < o.epochs
         THEN [rk EXCEPT !.pc = "train", !.stop = stop, !.epoch = @ + 1]
         ELSE [rk EXCEPT !.pc = "end_training", !.stop = stop]

\* rank 0 after its batch loop: validation, stopper, broadcast of stop, break
CoordinatorEpochEnd ==
    /\ ranks[0].pc = "epoch_end"
    /\ \E res \in ValResults :
        LET rk == ranks[0]
            final_epoch == (rk.epoch + 1 = opt.epochs) \/ rk.stopper.possible_stop
            doVal == ~opt.noval \/ final_epoch
            results == IF doVal THEN res ELSE rk.results
            sc == StopperCall(rk.stopper, opt.patience, rk.epoch, fitness(results))
            rk1 == [rk EXCEPT !.results = results, !.stopper = sc.stopper,
                              !.nbcast = @ + 1, !.sent = Append(@, sc.stop)]
        IN  /\ ~doVal => res = <<0, 0>>
            \* dist.broadcast_object_list([stop], 0)
            /\ chan' = [q \in Followers |-> Append(chan[q], sc.stop)]
            /\ ranks' = [ranks EXCEPT ![0] = AfterEpoch(rk1, sc.stop, opt)]
    /\ UNCHANGED <<trainVars, pipeVars>>

\* rank r > 0 after its batch loop: waits in broadcast_object_list for rank 0's value
FollowerEpochEnd(r) ==
    /\ r \in Followers
    /\ ranks[r].pc = "epoch_end"
    /\ chan[r] # <<>>
    /\ LET rk1 == [ranks[r] EXCEPT !.nbcast = @ + 1]
           stop == FollowerStop(ranks[r].stop, Head(chan[r]))
       IN  ranks' = [ranks EXCEPT ![r] = AfterEpoch(rk1, stop, opt)]
    /\ chan' = [chan EXCEPT ![r] = Tail(@)]
    /\ UNCHANGED <<trainVars, pipeVars>>

\* rank r after its epoch loop
RankEndTraining(r) ==
    /\ ranks[r].pc = "end_training"
    /\ ranks' = [ranks EXCEPT ![r].pc = "done"]
    /\ UNCHANGED <<trainVars, chan, pipeVars>>

NextDDP ==
    \E r \in RankIds :
        \/ RankTrainEpoch(r)
        \/ (r = 0 /\ CoordinatorEpochEnd)
        \/ FollowerEpochEnd(r)
        \/ RankEndTraining(r)

SpecDDP == InitDDP /\ [][NextDDP]_vars

(***************************************************************************)
(* Properties                                                              *)
(***************************************************************************)
Positions(ev, name) == {k \in 1..Len(ev) : ev[k] = name}

\* a batch iteration has run and its backward pass did not raise
IterationDone == Len(events) >= 2 /\ events[1] = "forward" /\ pc # "error"

\* C1: in every training step the combined loss is 40 * bpp_loss + 1 * loss in
\* train.py and 1 * bpp_loss + 8 * loss in train2, elementwise and exactly, where
\* loss is the detector loss after the WORLD_SIZE (DDP) and quad (x4) multipliers.
C1_CombinedLossDecomposition ==
    losses.total_loss # <<>> =>
        /\ Len(losses.total_loss) = Len(losses.bpp_loss)
        /\ losses.loss = losses.raw * (IF RANK # -1 THEN NumRanks ELSE 1)
                                    * (IF opt.quad THEN 4 ELSE 1)
        /\ \A k \in 1..Len(losses.total_loss) :
              losses.total_loss[k] =
                  IF variant = "train"
                  THEN 40 * losses.bpp_loss[k] + 1 * losses.loss
                  ELSE 1 * losses.bpp_loss[k] + 8 * losses.loss

C1_Witness ==
    /\ variant = "train2"
    /\ RANK = 0
    /\ opt.quad
    /\ losses.raw = 2
    /\ losses.bpp_loss = <<1>>
    /\ losses.loss = 2 * NumRanks * 4
    /\ losses.total_loss = <<1 + 8 * losses.loss>>

\* C2: each training step performs exactly one backward pass, on the scaled
\* combined loss, and every gradient a network accumulates for a micro-batch
\* comes from that pass.
C2_SingleScaledBackward ==
    IterationDone =>
        /\ Cardinality(Positions(events, "backward")) = 1
        /\ \A p \in DOMAIN params : \A g \in params[p].grad :
              g.of = "total_loss" /\ g.scaled
        /\ \A o \in Optimizers : \A g \in step_log[o].grads :
              g.of = "total_loss" /\ g.scaled

C4_BackwardThenJointStep ==
    /\ \A k \in Positions(events, "step:optimizer") \cup Positions(events, "step:ctl_optimizer") :
          /\ Positions(events, "backward") # {}
          /\ \A b \in Positions(events, "backward") : b < k
    /\ step_log["optimizer"].stepped = step_log["ctl_optimizer"].stepped
    /\ counts.steps["optimizer"] = counts.steps["ctl_optimizer"]

C4_Witness ==
    /\ step_log["optimizer"].stepped
    /\ step_log["ctl_optimizer"].stepped
    /\ counts.steps["optimizer"] = 2
    /\ counts.iters = 3

\* C5: whenever an optimizer steps, the gradients it applies have been unscaled
\* and clipped by global norm; this holds for the detector and for the control
\* network.
C5_UnscaledClippedBeforeStep ==
    \A o \in Optimizers :
        step_log[o].stepped => step_log[o].unscaled /\ step_log[o].clipped

\* C6: on the coordinator the EMA is updated once per optimizer step, after
\* both optimizers have stepped, never in an iteration without a step, and the
\* number of EMA updates of the run equals the number of optimizer steps.
C6_EmaOncePerStep ==
    RANK \in {-1, 0} =>
        /\ counts.ema = counts.steps["optimizer"]
        /\ counts.ema = counts.steps["ctl_optimizer"]
        /\ Cardinality(Positions(events, "ema.update")) =
              (IF step_log["optimizer"].stepped THEN 1 ELSE 0)
        /\ \A e \in Positions(events, "ema.update") : \A o \in Optimizers :
              step_log[o].stepped /\ step_log[o].at < e

C6_Witness ==
    /\ RANK = 0
    /\ counts.ema = 2
    /\ counts.iters = 3
    /\ Positions(events, "ema.update") # {}

\* C7: the end-of-epoch validation runs on the EMA weights of the detector and
\* of the control network, and the training forward pass on the live networks.
C7_ValidationOnEma ==
    /\ (val_log.called /\ val_log.phase = "epoch") =>
          val_log.model.src = "ema" /\ val_log.ctl.src = "ema"
    /\ losses.total_loss # <<>> =>
          losses.fwd_model.src = "live" /\ losses.fwd_ctl.src = "live"

\* C8: the weights a checkpoint exports, and those the final validation of
\* best.pt uses, are the EMA weights of the detector and of the control network.
C8_ExportIsEma ==
    /\ \A f \in {files.last, files.best} :
          f.exists => AttemptLoad(f).src = "ema" /\ LoadCtlFromCkpt(f).src = "ema"
    /\ (val_log.called /\ val_log.phase = "final") =>
          val_log.model.src = "ema" /\ val_log.ctl.src = "ema"

\* C9: after any number of training steps the parameters of the control
\* network's pretrained feature extractor and of the bit-rate estimator are
\* what they were before the first step.
C9_FrozenParametersUnchanged ==
    /\ params["ctl_resnet"].val = 0
    /\ params["ctl_resnet"].grad = {}
    /\ variant = "train2" =>
          params["bitEstimator"].val = 0 /\ params["bitEstimator"].grad = {}

C9_Witness ==
    /\ variant = "train2"
    /\ params["ctl_head"].val = 2
    /\ params["model"].val = 2
    /\ params["ctl_resnet"].val = 0
    /\ params["bitEstimator"].val = 0

\* C10: under DDP every rank > 0 takes its stop decision from the value rank 0
\* broadcast in that epoch, no rank breaks its epoch loop before rank 0 has
\* broadcast in that epoch, and all ranks break in the same epoch.
C10_StopFollowsBroadcast ==
    \A r \in DOMAIN ranks :
        /\ (r # 0 /\ ranks[r].nbcast > 0) =>
              /\ ranks[r].nbcast <= ranks[0].nbcast
              /\ ranks[r].stop = ranks[0].sent[ranks[r].nbcast]
        /\ ranks[r].broke_at # -1 =>
              /\ ranks[0].nbcast >= ranks[r].broke_at - opt.start_epoch + 1
              /\ ranks[0].broke_at = ranks[r].broke_at
        /\ ranks[0].broke_at # -1 => ranks[r].epoch <= ranks[0].broke_at

C10_Witness ==
    /\ DOMAIN ranks # {}
    /\ \A r \in DOMAIN ranks :
          ranks[r].pc = "done" /\ ranks[r].broke_at = 1 /\ ranks[r].broke_at + 1 < opt.epochs

\* epochs of this run whose end-of-epoch code has run
EpochsDone ==
    IF pc \in {"end_training", "done"} THEN epoch - opt.start_epoch + 1
    ELSE epoch - opt.start_epoch

\* C11: at the end of every epoch the learning-rate scheduler of the detector
\* optimizer and that of the control-network optimizer are each stepped exactly
\* once, in both training variants.
C11_BothSchedulersStepPerEpoch ==
    \A o \in Optimizers : counts.sched[o] = EpochsDone

JustResumed == load_log.resume /\ pc = "epoch_start" /\ counts.iters = 0

\* C12: resuming from a saved checkpoint restores the detector weights, the
\* control-network weights and the state of both optimizers as they were saved.
C12_ResumeRestoresSavedState ==
    JustResumed =>
        /\ Live("model", params).ver = load_log.ckpt.model.ver
        /\ Live("ctl", params).ver = load_log.ckpt.ctl.ver
        /\ ostate["optimizer"] = load_log.ckpt.optimizer.state
        /\ ostate["ctl_optimizer"] = load_log.ckpt.ctl_optimizer.state

\* C13: loading a checkpoint without a control-network entry is not fatal, the
\* control network keeps its freshly initialized weights, a warning about the
\* missing entry is logged, and training or validation proceeds.
C13_MissingCtlEntryFallsBack ==
    (load_log.loaded /\ ~HasCtlEntry(load_log.ckpt)) =>
        /\ ~load_log.fatal
        /\ pc # "error"
        /\ "no_ctl_found" \in load_log.msgs
        /\ load_log.by = "train" => Live("ctl", params).ver = 0
        /\ load_log.by # "train" => val_log.ctl = FreshCtl

\* C15: delta_encode applied to a tensor of shape (B, C, P, 64) returns a tensor
\* of the same shape in which, for every batch item and channel, coefficient 0
\* of block 0 is unchanged, coefficient 0 of every block p >= 1 is DC[p] - DC[p-1]
\* of the input (the subtraction of the tensor dtype), and coefficients 1..63 of
\* every block are unchanged.
C15_DeltaEncodeShapeAndValues ==
    dlt.applied =>
        /\ DOMAIN dlt.out = DOMAIN dlt.coefs
        /\ \A b \in DOMAIN dlt.coefs :
              /\ DOMAIN dlt.out[b] = DOMAIN dlt.coefs[b]
              /\ \A c \in DOMAIN dlt.coefs[b] :
                    LET x == dlt.coefs[b][c]
                        y == dlt.out[b][c]
                    IN  /\ DOMAIN y = DOMAIN x
                        /\ \A p \in DOMAIN x :
                              /\ DOMAIN y[p] = 1..64
                              /\ y[p][1] = IF p = 1 THEN x[1][1]
                                           ELSE FSub(x[p][1], x[p - 1][1])
                              /\ \A k \in 2..64 : y[p][k] = x[p][k]

C15_Witness ==
    /\ dlt.applied
    /\ Len(dlt.coefs) = 2 /\ Len(dlt.coefs[1]) = 3 /\ Len(dlt.coefs[1][1]) = 3
    /\ dlt.coefs[1][1][1][1] = 1 /\ dlt.coefs[1][1][2][1] = -2 /\ dlt.coefs[1][1][3][1] = 0
    /\ dlt.out[1][1][1][1] = 1 /\ dlt.out[1][1][2][1] = -3 /\ dlt.out[1][1][3][1] = 2
    /\ dlt.out[1][2][2][1] = -2 /\ dlt.out[1][2][3][1] = 3

\* the decoder of the claim: prefix sum of the DC coefficients along the
\* block-sequence axis in the tensor dtype, AC coefficients untouched
RECURSIVE PrefixDC(_, _)
PrefixDC(rows, p) ==
    IF p = 1 THEN rows[1][1] ELSE FAdd(PrefixDC(rows, p - 1), rows[p][1])

DeltaDecode(t) ==
    [b \in DOMAIN t |-> [c \in DOMAIN t[b] |-> [p \in DOMAIN t[b][c] |->
        <<PrefixDC(t[b][c], p)>> \o SubSeq(t[b][c][p], 2, Len(t[b][c][p]))]]]

\* every DC coefficient is an integer of magnitude at most 2^(MantBits - 1), so
\* that every difference and every partial sum is a value of the dtype
DCInExactRange(t) ==
    \A b \in DOMAIN t : \A c \in DOMAIN t[b] : \A p \in DOMAIN t[b][c] :
        Abs(t[b][c][p][1]) <= Pow2(MantBits - 1)

AfterBlockify == {"blockified", "encoded", "deblockified", "rows", "done", "error"}

\* the tensor that entered blockify is a whole number of 8x8 blocks and every
\* one of its coefficients is in a block
EntersWhole ==
    /\ pipe.enter_shape[1] % BlockSize = 0
    /\ pipe.enter_shape[2] % BlockSize = 0
    /\ pipe.stage = "blockified" =>
          \A b \in 1..pipe.B : \A c \in 1..3 :
              Len(pipe.blocks[b][c]) * (BlockSize * BlockSize)
                  = pipe.enter_shape[1] * pipe.enter_shape[2]
    /\ pipe.stage = "rows" =>
          Len(pipe.blocks) * (BlockSize * BlockSize) = pipe.B * 3 * pipe.imgsz * pipe.imgsz

\* C17 (as stated): every tensor that enters 8x8 block decomposition has height
\* and width that are multiples of 8, and a size that is not a multiple of 8
\* fails with an error instead of reaching the block decomposition.
C17_NonMultipleFailsFast ==
    pipe.stage \in AfterBlockify =>
        /\ EntersWhole
        /\ pipe.req % BlockSize # 0 => pipe.stage = "error"

\* C17 (amended): every tensor that enters 8x8 block decomposition has height
\* and width that are multiples of 8 and none of its coefficients is dropped,
\* because the image size is rounded up to a multiple of the grid size before
\* any batch is built; a requested size that is not a multiple of 8 is rounded
\* up, not rejected.
C17_BlockInputsAreWholeBlocks ==
    pipe.stage \in AfterBlockify =>
        /\ EntersWhole
        /\ pipe.imgsz % BlockSize = 0
        /\ pipe.imgsz >= pipe.req

C17_Witness ==
    /\ pipe.stage = "blockified"
    /\ pipe.mode = "train"
    /\ pipe.req = 20 /\ pipe.imgsz = 64
    /\ pipe.enter_shape = <<64, 64>>
    /\ Len(pipe.blocks[1][1]) = 64

RECURSIVE TotalCodeLength(_, _, _)
TotalCodeLength(est, from, n) ==
    IF n = 0 THEN 0
    ELSE IF n = 1 THEN est[from].out
    ELSE TotalCodeLength(est, from, n \div 2)
             + TotalCodeLength(est, from + (n \div 2), n - (n \div 2))

\* C19: in training and in validation the bpp estimate is the sum of the code
\* lengths of all blocks of the three channels of each image, averaged over
\* the batch and divided by the coefficient count C*H*W of one image.
C19_BppIsNormalizedSum ==
    pipe.stage = "done" =>
        LET H == pipe.enter_shape[1]
            W == pipe.enter_shape[2]
        IN  /\ Len(pipe.est) = pipe.B * 3 * (H \div BlockSize) * (W \div BlockSize)
            /\ pipe.bpp.num = TotalCodeLength(pipe.est, 1, Len(pipe.est))
            /\ pipe.bpp.den = pipe.B * (3 * H * W)

C19_Witness ==
    /\ pipe.stage = "done"
    /\ pipe.mode = "train"
    /\ pipe.B = 2
    /\ pipe.enter_shape = <<64, 64>>
    /\ Len(pipe.est) = 384
    /\ pipe.bpp.num > 0
    /\ pipe.bpp.den = 2 * 3 * 64 * 64

\* place in the zigzag scan (0-based) of the coefficient at row y, column x
\* (0-based) of a block: the anti-diagonals in turn, the odd ones downwards
\* and the even ones upwards
ScanPlace(y, x) ==
    LET d == y + x
        lo == IF d > 7 THEN d - 7 ELSE 0
        hi == IF d > 7 THEN 7 ELSE d
        before == IF d <= 7 THEN (d * (d + 1)) \div 2
                  ELSE 64 - (((15 - d) * (16 - d)) \div 2)
    IN  before + (IF d % 2 = 1 THEN y - lo ELSE hi - y)

\* the quantized coefficient at row y, column x (0-based) of block j of
\* channel c of image b
BlockCoef(b, c, j, y, x) ==
    LET nbx == pipe.enter_shape[2] \div BlockSize
    IN  pipe.q[b][c][BlockSize * ((j - 1) \div nbx) + y + 1]
                    [BlockSize * ((j - 1) % nbx) + x + 1]

\* C20: for every row fed to the estimator, the DC predictor receives exactly
\* one value, the log-scaled delta-encoded DC coefficient of the row's block,
\* the AC predictor receives the other 63 coefficients of the same block in
\* zigzag order, and the code length is the sum of the two outputs.
C20_DcAndAcInputs ==
    pipe.stage = "done" =>
        LET n == (pipe.enter_shape[1] \div BlockSize) * (pipe.enter_shape[2] \div BlockSize)
        IN  \A b \in 1..pipe.B : \A c \in 1..3 : \A j \in 1..n :
                LET e == pipe.est[(b - 1) * 3 * n + (c - 1) * n + j]
                    dc == IF j = 1 THEN BlockCoef(b, c, 1, 0, 0)
                          ELSE BlockCoef(b, c, j, 0, 0) - BlockCoef(b, c, j - 1, 0, 0)
                IN  /\ Len(e.dc_in) = 1
                    /\ e.dc_in[1] = LogScale(dc)
                    /\ Len(e.ac_in) = 63
                    /\ \A y \in 0..7 : \A x \in 0..7 :
                          (y + x > 0) =>
                              e.ac_in[ScanPlace(y, x)] = LogScale(BlockCoef(b, c, j, y, x))
                    /\ e.out = DCPredict(e.dc_in) + ACPredict(e.ac_in)

C20_Witness ==
    /\ pipe.stage = "done"
    /\ pipe.mode = "train"
    /\ pipe.seed = 1
    /\ Len(pipe.est) >= 192
    /\ pipe.est[2].dc_in = <<LogScale(pipe.q[1][1][1][9] - pipe.q[1][1][1][1])>>
    /\ pipe.q[1][1][1][9] # pipe.q[1][1][1][1]
    /\ pipe.est[2].ac_in[2] = LogScale(pipe.q[1][1][2][9])
    /\ pipe.est[2].ac_in[2] # LogScale(pipe.q[1][1][1][10])
    /\ pipe.est[2].out = DCPredict(pipe.est[2].dc_in) + ACPredict(pipe.est[2].ac_in)

IterationNi == i + opt.nb * epoch

\* a TrainBatch step that runs its iteration to the end of the loop body
BatchStep == pc = "batch" /\ pc' # "error"

\* the step took optimizer o's step
TookStep(o) == counts'.steps[o] = counts.steps[o] + 1

\* C22: an optimizer step is taken in exactly the iterations where
\* ni - last_opt_step >= accumulate, after which last_opt_step = ni; in every
\* reachable state last_opt_step <= ni and 1 <= accumulate <=
\* max(1, round(nbs / batch_size)).
C22_StepAtAccumulationThreshold ==
    /\ [](/\ last_opt_step <= IterationNi
          /\ 1 <= accumulate
          /\ accumulate <= Max(1, RoundHalfEven(nbs, opt.batch_size)))
    /\ [][BatchStep =>
            /\ \A o \in Optimizers :
                  TookStep(o) <=> (IterationNi - last_opt_step >= accumulate')
            /\ \A o \in Optimizers : ~TookStep(o) => counts'.steps[o] = counts.steps[o]
            /\ last_opt_step' = IF IterationNi - last_opt_step >= accumulate'
                                THEN IterationNi ELSE last_opt_step]_vars

C22_Witness ==
    /\ pc = "batch"
    /\ accumulate = 2
    /\ IterationNi = 2
    /\ last_opt_step = 0
    /\ counts.iters = 2
    /\ counts.steps["optimizer"] = 1
    /\ counts.steps["ctl_optimizer"] = 1

\* a step of SpecLr that executes the iteration with this ni
LrIteration(ni) == lrs.stage = "batch" /\ lrs'.ni = ni /\ lrs'.resumed = lrs.resumed

\* the point at ni on the line from (0, a) to (nwv, b), b a fraction
OnLine(ni, nwv, a, b) == Rat(a * nwv * b.den + (b.num - a * b.den) * ni, nwv * b.den)

\* C23: in every iteration with ni <= nw (ni counted from epoch 0) the detector
\* optimizer's learning rates and momentum are set to the linear interpolation
\* in ni between their warmup start values and their targets; for ni > nw the
\* warmup block changes nothing; the control-network optimizer's learning rate
\* is never modified by warmup.
C23_WarmupInterpolates ==
    [][\A ni \in 0..(lrs.nb * lrs.epochs) :
          LrIteration(ni) =>
              LET nwv == Max(warmup_epochs * lrs.nb, MinWarmup)
                  target == Rat(lrs.run.initial_lr * lf(lrs.epoch, lrs.epochs).num,
                                lf(lrs.epoch, lrs.epochs).den)
              IN  /\ ni = lrs.i + lrs.nb * lrs.epoch
                  /\ ni <= nwv =>
                        /\ lrs'.run.opt_lr[1] = OnLine(ni, nwv, hyp_warmup_bias_lr, target)
                        /\ lrs'.run.opt_lr[2] = OnLine(ni, nwv, 0, target)
                        /\ lrs'.run.opt_lr[3] = OnLine(ni, nwv, 0, target)
                        /\ lrs'.run.momentum =
                              OnLine(ni, nwv, hyp_warmup_momentum, Rat(hyp_momentum, 1))
                  /\ ni > nwv =>
                        /\ lrs'.run.opt_lr = lrs.run.opt_lr
                        /\ lrs'.run.momentum = lrs.run.momentum
                  /\ lrs'.run.ctl_lr = lrs.run.ctl_lr]_vars

C23_Witness ==
    /\ lrs.stage = "batch"
    /\ lrs.nb = LrBatches
    /\ lrs.ni = Max(warmup_epochs * lrs.nb, MinWarmup) + 1
    /\ lrs.run.opt_lr = lrs.before.opt_lr
    /\ lrs.run.sched = lrs.epoch - 1
    /\ lrs.epoch = 3

\* C29: when training resumes at start_epoch > 0, both schedulers are
\* positioned where an uninterrupted run has them at start_epoch, so each
\* optimizer's learning rate in the first resumed epoch equals the rate the
\* uninterrupted run uses.
C29_ResumePositionsBothSchedulers ==
    (lrs.stage # "none" /\ lrs.resumed /\ lrs.start_epoch > 0 /\ lrs.epoch = lrs.start_epoch) =>
        /\ lrs.run.sched = lrs.ref.sched
        /\ lrs.run.ctl_sched = lrs.ref.ctl_sched
        /\ lrs.run.opt_lr = lrs.ref.opt_lr
        /\ lrs.run.ctl_lr = lrs.ref.ctl_lr

\* the coordinator runs the end of an epoch
EpochEndOnCoordinator == pc = "epoch_end" /\ pc' # "epoch_end" /\ RANK \in {-1, 0}

\* C24: on the coordinator best_fitness never decreases, and after each epoch it
\* is the maximum of its value before the epoch (initially the initial or
\* resumed value) and the epoch's fitness, hence of all fitness values so far;
\* with saving enabled last.pt is written in every epoch and best.pt in exactly
\* the epochs whose fitness equals best_fitness.
C24_BestFitnessIsRunningMax ==
    /\ [][fit'.best_fitness >= fit.best_fitness]_vars
    /\ [][~EpochEndOnCoordinator => fit'.best_fitness = fit.best_fitness]_vars
    /\ [][EpochEndOnCoordinator =>
            /\ fit'.best_fitness = Max(fit.best_fitness, fit'.fi)
            /\ ~opt.nosave =>
                 /\ files'.last.exists
                 /\ files'.last.epoch = epoch
                 /\ files'.last.best_fitness = fit'.best_fitness
                 /\ (fit'.fi = fit'.best_fitness) <=>
                        (files'.best.exists /\ files'.best.epoch = epoch)
                 /\ (fit'.fi # fit'.best_fitness) => files'.best = files.best]_vars

C24_Witness ==
    /\ RANK = 0
    /\ ~opt.nosave
    /\ opt.start_epoch > 0
    /\ fit.fi < fit.best_fitness
    /\ files.last.exists
    /\ files.last.epoch = opt.start_epoch + 1
    /\ files.best.exists
    /\ files.best.epoch = opt.start_epoch
    /\ files.best.best_fitness = files.last.best_fitness

\* the division and logarithm sites of a finished forward pass
SitesOf(f) == {f.sites[k] : k \in 1..Len(f.sites)}

\* no zero denominator, no logarithm of a value below 1
SafeSite(s) ==
    /\ s.kind = "div" => s.value # 0
    /\ s.kind = "log" => s.value >= 1

\* C25 as stated: every division and logarithm site of the transform pipeline
\* adds a small positive epsilon or a constant to its operand, and no
\* denominator is zero and no logarithm argument is below 1.
C25_EverySiteAddsEpsilon ==
    fwd.stage = "transformed" =>
        \A s \in SitesOf(fwd) : s.added # "none" /\ SafeSite(s)

\* C25 amended: for pixels in [0, 1] and control outputs in their ranges no
\* denominator is zero and no logarithm argument is below 1; an epsilon or
\* constant is added at the tone-mapping sites and at the log-scale transform
\* only, the other sites divide by operands that their ranges keep positive.
C25_SitesAreSafe ==
    fwd.stage = "transformed" =>
        \A s \in SitesOf(fwd) :
            /\ SafeSite(s)
            /\ s.added # "none" <=>
                 s.name \in {"reinhard_weights", "reinhard_ldr", "reinhard_scale",
                             "log_scale", "log_base"}

C25_Witness ==
    /\ fwd.stage = "transformed"
    /\ fwd.net = "luminance"
    /\ fwd.px = <<0, 0, 0>>
    /\ fwd.out = <<One \div 2, One \div 2>>
    /\ \E s \in SitesOf(fwd) : s.name = "reinhard_scale" /\ s.value = Eps
    /\ \E s \in SitesOf(fwd) : s.name = "log_scale" /\ s.value = 1
    /\ \E s \in SitesOf(fwd) : s.name = "blur_exponent" /\ s.added = "none" /\ s.value > 0

\* gradients accumulated by backward calls and not yet used by an optimizer step
PendingGrads == UNION {params[p].grad : p \in DOMAIN params}

\* C26: no back-propagated micro-batch gradient is discarded: where the
\* gradients are zeroed at the top of an epoch, and where training ends, every
\* gradient accumulated so far has been used by an optimizer step.
C26_NoGradientDiscarded ==
    pc \in {"epoch_start", "end_training", "done"} => PendingGrads = {}

\* positions of a call in the calls of the last batch iteration
EventsAt(name) == {k \in 1..Len(events) : events[k] = name}

\* the last batch iteration ran the optimizer-step block
RanStepBlock == \A o \in Optimizers : step_log[o].stepped

\* C27: within one optimizer-step block the gradient scaler is updated exactly
\* once, after both optimizers have stepped, and each optimizer's gradients
\* are unscaled exactly once, before its step.
C27_ScalerUpdatedOnceAfterBothSteps ==
    RanStepBlock =>
        /\ Cardinality(EventsAt("scaler.update")) = 1
        /\ \A u \in EventsAt("scaler.update") :
              \A s \in EventsAt("step:optimizer") \cup EventsAt("step:ctl_optimizer") : s < u
        /\ Cardinality(EventsAt("unscale:optimizer")) = 1
        /\ Cardinality(EventsAt("unscale:ctl_optimizer")) = 1
        /\ \A u \in EventsAt("unscale:optimizer"), s \in EventsAt("step:optimizer") : u < s
        /\ \A u \in EventsAt("unscale:ctl_optimizer"), s \in EventsAt("step:ctl_optimizer") : u < s

\* rank r is inside dist.broadcast_object_list and rank 0's value has not arrived
WaitingAtBroadcast(r) == ranks[r].pc = "epoch_end" /\ chan[r] = <<>>

\* rank r has left train()
LeftTraining(r) == ranks[r].pc \in {"returned", "done"}

\* C28: under DDP every rank executes the per-epoch stop broadcast the same
\* number of times, and no rank leaves the training function (also not through
\* the coordinator's `if callbacks.stop_training: return` inside the batch
\* loop) while another rank is waiting at the broadcast.
C28_NoRankLeavesAWaitingRank ==
    ranks # <<>> =>
        /\ (\A r \in RankIds : LeftTraining(r)) =>
              \A r \in RankIds : ranks[r].nbcast = ranks[0].nbcast
        /\ \A r \in Followers : WaitingAtBroadcast(r) => ~LeftTraining(0)

\* the forward pass has reached the deblockify call
AtDeblockify == pipe.stage \in {"encoded", "deblockified", "rows", "done", "error"}

\* C30: in every step, also on multi-scale-resized and rectangular batches, the
\* size passed to deblockify is the (H, W) of the tensor that blockify
\* decomposed, so the number of blocks is (H / 8) * (W / 8) of that size and
\* the recomposition does not fail.
C30_DeblockifySizeIsBlockifiedSize ==
    AtDeblockify =>
        /\ <<pipe.imgsz, pipe.imgsz>> = pipe.enter_shape
        /\ DeblockifyFits((pipe.enter_shape[1] \div BlockSize) * (pipe.enter_shape[2] \div BlockSize),
                          pipe.imgsz, pipe.imgsz)
        /\ pipe.stage # "error"

=============================================================================
